---- MODULE Spec2Model ----
(***************************************************************************)
(* dchook: the abuse controller (RateLimiter) and the /deploy request      *)
(* pipeline of the listener.                                               *)
(*                                                                         *)
(* Time is counted in minutes.  Every RateLimiter method takes the mutex   *)
(* for its whole body, so each method is one atomic step that reads the    *)
(* clock once.                                                             *)
(***************************************************************************)
EXTENDS Integers, Sequences, FiniteSets, TLC

VARIABLES
    now,              \* the wall clock, time.Now(), in minutes
    successRequests,  \* rl.successRequests: ip -> sequence of instants
    failedRequests,   \* rl.failedRequests:  ip -> count
    bannedUntil,      \* rl.bannedUntil:     ip -> instant
    seenTimestamps,   \* rl.seenTimestamps:  timestamp -> instant recorded
    successLimit, successWindow, failLimit, banDuration, replayWindow,
    last,             \* the most recent direct call of a RateLimiter method
    streak,           \* ip -> RecordFailure calls since the last accepted RecordSuccess
    nFail,            \* ip -> RecordFailure calls since construction
    lastFailAt,       \* ip -> instant of the most recent RecordFailure call
    grants,           \* ip -> instants at which RecordSuccess returned true
    tries,            \* ip -> the first successLimit+1 RecordSuccess calls: instant, result
    accepts,          \* timestamp -> instants at which CheckReplay returned true
    pc,               \* handler -> position in the /deploy handler
    hreq,             \* handler -> the request being served
    hip,              \* handler -> the resolved client IP of that request
    calls,            \* handler -> the RateLimiter calls made for the request
    served,           \* the most recent response written: request, ip, calls, status, step
    deploys,          \* request -> number of deploy goroutines started for it
    started,          \* number of requests received so far
    mu,               \* rl.mu: TRUE while a goroutine holds the mutex
    gor,              \* goroutine -> the RateLimiter method it is executing
    jobs,             \* the deploy goroutines started, in order of their go statement
    sig,              \* the most recent call of a function of package dchook
    cli               \* a command started: the listener's startup (flag, environment,
                      \* allowedAlgorithms), or the run of dchook-notify

maps   == <<successRequests, failedRequests, bannedUntil, seenTimestamps>>
config == <<successLimit, successWindow, failLimit, banDuration, replayWindow>>
ghosts == <<streak, nFail, lastFailAt, grants, tries, accepts>>
server == <<pc, hreq, hip, calls, served, deploys, started>>
rest   == <<mu, gor, jobs, sig, cli>>
vars   == <<now, maps, config, last, ghosts, server, rest>>

(***************************************************************************)
(* Bounds of the model.                                                    *)
(***************************************************************************)
MaxTime  == 3     \* the clock runs from 0 to MaxTime
MaxCalls == 5     \* direct calls of RateLimiter methods in one run
MaxClock == 1     \* the listener's clock runs from 0 to MaxClock
MaxRequests == 3  \* requests the listener receives in one run
MaxLocked == 4    \* RateLimiter methods called by the concurrent goroutines

IPs == {"10.0.0.1", "192.168.1.1"}

(***************************************************************************)
(* Go maps: a missing key reads as the zero value, delete removes the key. *)
(***************************************************************************)
EmptyMap == << >>
Get(m, k, zero) == IF k \in DOMAIN m THEN m[k] ELSE zero
Put(m, k, v) == [x \in DOMAIN m \cup {k} |-> IF x = k THEN v ELSE m[x]]
Del(m, k) == [x \in DOMAIN m \ {k} |-> m[x]]

(***************************************************************************)
(* The acceptance window of CheckReplay: 5 minutes back, 1 minute ahead.   *)
(***************************************************************************)
ReplayPast   == 5
ReplayFuture == 1

(***************************************************************************)
(* Mutations of RateLimiter methods used to test the properties below.     *)
(***************************************************************************)
IsBanned_ExpiryInclusive(ip, ret) ==
    /\ IF ip \in DOMAIN bannedUntil
         THEN IF now <= bannedUntil[ip]
                THEN /\ ret = TRUE
                     /\ UNCHANGED <<bannedUntil, failedRequests>>
                ELSE /\ ret = FALSE
                     /\ bannedUntil' = Del(bannedUntil, ip)
                     /\ failedRequests' = Del(failedRequests, ip)
         ELSE /\ ret = FALSE
              /\ UNCHANGED <<bannedUntil, failedRequests>>
    /\ UNCHANGED <<successRequests, seenTimestamps>>

After_ShortWindow(t, cutoff) == t > cutoff + 1

(***************************************************************************)
(* RateLimiter methods.  ret is the value the method returns.              *)
(***************************************************************************)
IsBanned(ip, ret) ==
    /\ IF ip \in DOMAIN bannedUntil
         THEN IF now < bannedUntil[ip]
                THEN /\ ret = TRUE
                     /\ UNCHANGED <<bannedUntil, failedRequests>>
                ELSE /\ ret = FALSE
                     /\ bannedUntil' = Del(bannedUntil, ip)
                     /\ failedRequests' = Del(failedRequests, ip)
         ELSE /\ ret = FALSE
              /\ UNCHANGED <<bannedUntil, failedRequests>>
    /\ UNCHANGED <<successRequests, seenTimestamps>>

OutsideWindow_Symmetric(timestamp) ==
    timestamp < now - ReplayPast \/ timestamp > now + ReplayPast

OutsideWindow(timestamp) ==
    timestamp < now - ReplayPast \/ timestamp > now + ReplayFuture

Retained_Inclusive(seen) ==
    [ts \in {t \in DOMAIN seen : seen[t] > now - replayWindow} |-> seen[ts]]

Retained(seen) ==
    [ts \in {t \in DOMAIN seen : ~(seen[t] < now - replayWindow)} |-> seen[ts]]

CheckReplay_PruneOnReject(timestamp, ret) ==
    /\ IF OutsideWindow(timestamp) \/ timestamp \in DOMAIN seenTimestamps
         THEN ret = FALSE /\ seenTimestamps' = Retained(seenTimestamps)
         ELSE /\ ret = TRUE
              /\ seenTimestamps' = Put(Retained(seenTimestamps), timestamp, now)
    /\ UNCHANGED <<successRequests, failedRequests, bannedUntil>>

CheckReplay_NotRecorded(timestamp, ret) ==
    /\ ret = (~OutsideWindow(timestamp) /\ timestamp \notin DOMAIN seenTimestamps)
    /\ seenTimestamps' = IF ret THEN Retained(seenTimestamps) ELSE seenTimestamps
    /\ UNCHANGED <<successRequests, failedRequests, bannedUntil>>

CheckReplay(timestamp, ret) ==
    /\ IF OutsideWindow(timestamp)
         THEN ret = FALSE /\ UNCHANGED seenTimestamps
         ELSE IF timestamp \in DOMAIN seenTimestamps
                THEN ret = FALSE /\ UNCHANGED seenTimestamps
                ELSE /\ ret = TRUE
                     /\ seenTimestamps' = Put(Retained(seenTimestamps), timestamp, now)
    /\ UNCHANGED <<successRequests, failedRequests, bannedUntil>>

After(t, cutoff) == t > cutoff

Recent(ip) ==
    SelectSeq(Get(successRequests, ip, << >>),
              LAMBDA t : After(t, now - successWindow))

RecordSuccess_RejectResets(ip, ret) ==
    /\ IF Len(Recent(ip)) >= successLimit
         THEN /\ ret = FALSE
              /\ successRequests' = Put(successRequests, ip, Recent(ip))
              /\ failedRequests' = Del(failedRequests, ip)
         ELSE /\ ret = TRUE
              /\ successRequests' = Put(successRequests, ip, Append(Recent(ip), now))
              /\ failedRequests' = Del(failedRequests, ip)
    /\ UNCHANGED <<bannedUntil, seenTimestamps>>

RecordSuccess_NoReset(ip, ret) ==
    /\ IF Len(Recent(ip)) >= successLimit
         THEN ret = FALSE /\ UNCHANGED <<successRequests, failedRequests>>
         ELSE /\ ret = TRUE
              /\ successRequests' = Put(successRequests, ip, Append(Recent(ip), now))
              /\ UNCHANGED failedRequests
    /\ UNCHANGED <<bannedUntil, seenTimestamps>>

RecordFailure_SharedCounter(ip) ==
    /\ failedRequests' = [x \in DOMAIN failedRequests \cup {ip} |->
                             Get(failedRequests, x, 0) + 1]
    /\ IF failedRequests'[ip] >= failLimit
         THEN bannedUntil' = Put(bannedUntil, ip, now + banDuration)
         ELSE UNCHANGED bannedUntil
    /\ UNCHANGED <<successRequests, seenTimestamps>>

RecordSuccess(ip, ret) ==
    /\ IF Len(Recent(ip)) >= successLimit
         THEN ret = FALSE /\ UNCHANGED <<successRequests, failedRequests>>
         ELSE /\ ret = TRUE
              /\ successRequests' = Put(successRequests, ip, Append(Recent(ip), now))
              /\ failedRequests' = Del(failedRequests, ip)
    /\ UNCHANGED <<bannedUntil, seenTimestamps>>

RecordFailure_BanAfterLimit(ip) ==
    /\ failedRequests' = Put(failedRequests, ip, Get(failedRequests, ip, 0) + 1)
    /\ IF failedRequests'[ip] > failLimit
         THEN bannedUntil' = Put(bannedUntil, ip, now + banDuration)
         ELSE UNCHANGED bannedUntil
    /\ UNCHANGED <<successRequests, seenTimestamps>>

RecordFailure(ip) ==
    /\ failedRequests' = Put(failedRequests, ip, Get(failedRequests, ip, 0) + 1)
    /\ IF failedRequests'[ip] >= failLimit
         THEN bannedUntil' = Put(bannedUntil, ip, now + banDuration)
         ELSE UNCHANGED bannedUntil
    /\ UNCHANGED <<successRequests, seenTimestamps>>

(***************************************************************************)
(* The clock.                                                              *)
(***************************************************************************)
Tick ==
    /\ now < MaxTime
    /\ now' = now + 1
    /\ UNCHANGED <<maps, config, rest, last, ghosts, server>>

(***************************************************************************)
(* Construction: NewRateLimiter makes the four maps empty and stores its   *)
(* five arguments.  No request is being served.                            *)
(***************************************************************************)
Handlers == {1, 2}

NoCall == [k |-> 0, op |-> "none", ip |-> "", ts |-> 0, ret |-> FALSE]
NoRequest == [defect |-> "idle", ts |-> 0]
NoResponse == [req |-> NoRequest, ip |-> "", calls |-> << >>, status |-> 0, step |-> "none"]

NoMethod == [st |-> "idle", op |-> "none", ip |-> "", ts |-> 0, ret |-> FALSE]
NoSignature == [op |-> "none"]
NoStartup == [st |-> "none"]

NewRateLimiter(sl, sw, fl, bd, rw) ==
    /\ successRequests = EmptyMap
    /\ failedRequests = EmptyMap
    /\ bannedUntil = EmptyMap
    /\ seenTimestamps = EmptyMap
    /\ successLimit = sl
    /\ successWindow = sw
    /\ failLimit = fl
    /\ banDuration = bd
    /\ replayWindow = rw

InitRest ==
    /\ now = 0
    /\ last = NoCall
    /\ streak = [ip \in IPs |-> 0]
    /\ nFail = [ip \in IPs |-> 0]
    /\ lastFailAt = [ip \in IPs |-> 0]
    /\ grants = [ip \in IPs |-> << >>]
    /\ tries = [ip \in IPs |-> << >>]
    /\ accepts = EmptyMap
    /\ pc = [h \in Handlers |-> "idle"]
    /\ hreq = [h \in Handlers |-> NoRequest]
    /\ hip = [h \in Handlers |-> ""]
    /\ calls = [h \in Handlers |-> << >>]
    /\ served = NoResponse
    /\ deploys = EmptyMap
    /\ started = 0
    /\ mu = FALSE
    /\ gor = [g \in Handlers |-> NoMethod]
    /\ jobs = << >>
    /\ sig = NoSignature
    /\ cli = NoStartup

(***************************************************************************)
(* The limiter driven directly, as the unit tests drive it.  The           *)
(* configurations are the listener's (1, time.Minute, 2, time.Hour,        *)
(* 10*time.Minute) and scaled ones in the shape of the tests'.             *)
(***************************************************************************)
LimiterConfigs ==
    { <<1, 1, 2, 60, 10>>,
      <<2, 2, 3, 2, 10>>,
      <<1, 2, 1, 1, 10>> }

Init ==
    /\ \E c \in LimiterConfigs : NewRateLimiter(c[1], c[2], c[3], c[4], c[5])
    /\ InitRest

Called(op, ip, ts, ret) ==
    last' = [k |-> last.k + 1, op |-> op, ip |-> ip, ts |-> ts, ret |-> ret]

CallIsBanned(ip) ==
    /\ last.k < MaxCalls
    /\ \E ret \in BOOLEAN :
         /\ IsBanned(ip, ret)
         /\ Called("IsBanned", ip, 0, ret)
    /\ UNCHANGED <<now, config, rest, ghosts, server>>

CallRecordSuccess(ip) ==
    /\ last.k < MaxCalls
    /\ \E ret \in BOOLEAN :
         /\ RecordSuccess(ip, ret)
         /\ Called("RecordSuccess", ip, 0, ret)
         /\ streak' = IF ret THEN [streak EXCEPT ![ip] = 0] ELSE streak
         /\ grants' = IF ret THEN [grants EXCEPT ![ip] = Append(@, now)] ELSE grants
         /\ tries' = IF Len(tries[ip]) <= successLimit
                       THEN [tries EXCEPT ![ip] = Append(@, [at |-> now, ret |-> ret])]
                       ELSE tries
    /\ UNCHANGED <<now, config, rest, nFail, lastFailAt, accepts, server>>

CallRecordFailure(ip) ==
    /\ last.k < MaxCalls
    /\ RecordFailure(ip)
    /\ Called("RecordFailure", ip, 0, TRUE)
    /\ streak' = [streak EXCEPT ![ip] = @ + 1]
    /\ nFail' = [nFail EXCEPT ![ip] = @ + 1]
    /\ lastFailAt' = [lastFailAt EXCEPT ![ip] = now]
    /\ UNCHANGED <<now, config, rest, grants, tries, accepts, server>>

Next ==
    \/ Tick
    \/ \E ip \in IPs : CallIsBanned(ip)
    \/ \E ip \in IPs : CallRecordSuccess(ip)
    \/ \E ip \in IPs : CallRecordFailure(ip)

Spec == Init /\ [][Next]_vars

(***************************************************************************)
(* The replay guard driven directly, as TestCheckReplay drives it.  The    *)
(* timestamp presented is the clock plus an offset on either side of both  *)
(* ends of the acceptance window; the retention window is the listener's   *)
(* 10 minutes or a shorter one, under which entries are pruned within      *)
(* MaxTime.                                                                *)
(***************************************************************************)
ReplayOffsets == {0 - 6, 0 - 5, 0, 1, 2}

ReplayConfigs ==
    { <<1, 1, 2, 60, 10>>,
      <<1, 1, 2, 60, 2>>,
      <<1, 1, 2, 60, 0>> }

InitReplay ==
    /\ \E c \in ReplayConfigs : NewRateLimiter(c[1], c[2], c[3], c[4], c[5])
    /\ InitRest

Accepted(ts, ret) ==
    accepts' = IF ret THEN Put(accepts, ts, Append(Get(accepts, ts, << >>), now))
                      ELSE accepts

CallCheckReplay(d) ==
    /\ last.k < MaxCalls
    /\ \E ret \in BOOLEAN :
         /\ CheckReplay(now + d, ret)
         /\ Called("CheckReplay", "", now + d, ret)
         /\ Accepted(now + d, ret)
    /\ UNCHANGED <<now, config, rest, streak, nFail, lastFailAt, grants, tries, server>>

NextReplay ==
    \/ Tick
    \/ \E d \in ReplayOffsets : CallCheckReplay(d)

SpecReplay == InitReplay /\ [][NextReplay]_vars

(***************************************************************************)
(* The listener.  main() builds one limiter with fixed arguments:          *)
(* 1 success per minute, ban for an hour after 2 failures, timestamps      *)
(* retained for 10 minutes.                                                *)
(*                                                                         *)
(* A request is described by its envelope timestamp and by the first of    *)
(* the handler's local checks that it fails (its defect); it fails every   *)
(* later local check as well, so that a check made out of order shows:     *)
(*   method     r.Method is not POST                                       *)
(*   body       io.ReadAll fails                                           *)
(*   signature  VerifySignature is false                                   *)
(*   decode     json.Unmarshal fails                                       *)
(*   timestamp  strconv.ParseInt fails                                     *)
(*   version    IsVersionCompatible is false                               *)
(*   valid      every local check passes                                   *)
(***************************************************************************)
ListenerConfig == <<1, 1, 2, 60, 10>>

StatusAccepted         == 202
StatusBadRequest       == 400
StatusUnauthorized     == 401
StatusForbidden        == 403
StatusMethodNotAllowed == 405
StatusTooManyRequests  == 429

Timestamps == {0 - 6, 0, 2}

Requests ==
    [defect : {"method", "body", "signature", "decode", "timestamp", "version"}, ts : {0}]
      \cup [defect : {"valid"}, ts : Timestamps]

Fails(r, check) ==
    CASE check = "method"    -> r.defect \in {"method"}
      [] check = "body"      -> r.defect \in {"method", "body"}
      [] check = "signature" -> r.defect \in {"method", "body", "signature"}
      [] check = "decode"    -> r.defect \in {"method", "body", "signature", "decode"}
      [] check = "timestamp" -> r.defect \in {"method", "body", "signature", "decode",
                                              "timestamp"}
      [] check = "version"   -> r.defect \in {"method", "body", "signature", "decode",
                                              "timestamp", "version"}

InitDeploy ==
    /\ NewRateLimiter(ListenerConfig[1], ListenerConfig[2], ListenerConfig[3],
                      ListenerConfig[4], ListenerConfig[5])
    /\ InitRest

Elapse ==
    /\ now < MaxClock
    /\ now' = now + 1
    /\ UNCHANGED <<maps, config, rest, last, ghosts, server>>

\* The build of the listener: version and commit of main, set at link time
\* (they are "dev" and "unknown" in a build made without it).
version == "v1.0.0"
commit == "abc123"

\* envelope.Dchook.Version and envelope.Dchook.Commit of a request.  A request
\* given by its defect alone carries a version off the listener's major for
\* the defect "version" and a later patch release otherwise.
EnvelopeOf(r) ==
    IF "version" \in DOMAIN r
      THEN [version |-> r.version, commit |-> r.commit]
      ELSE [version |-> IF r.defect = "version" THEN "v2.0.0" ELSE "v1.0.1",
            commit |-> "def456"]

\* A formatted text: the format and the values it is given, in order.
Printf(format, args) == [format |-> format, args |-> args]

\* The steps of the handler that end in limiter.RecordFailure(ip).
FailureSteps == {"body", "signature", "decode", "timestamp", "replay", "version"}

\* log.Printf of the handler on the way to the response of a step.
HandlerLog(step, r, ip) ==
    CASE step = "ban"       -> <<Printf("Banned IP attempted access: %s", <<ip>>)>>
      [] step = "body"      -> <<Printf("Failed to read body: %v", <<"err">>)>>
      [] step = "signature" -> <<Printf("Invalid signature from %s", <<ip>>)>>
      [] step = "decode"    -> <<Printf("Invalid JSON from %s: %v", <<ip, "err">>)>>
      [] step = "timestamp" -> <<Printf("Invalid timestamp from %s: %v", <<ip, "err">>)>>
      [] step = "replay"    ->
           <<Printf("Replay attack detected from %s (timestamp: %s)", <<ip, ToString(r.ts)>>)>>
      [] step = "version"   ->
           <<Printf("Version/commit mismatch: client=%s/%s server=%s/%s",
                    <<EnvelopeOf(r).version, EnvelopeOf(r).commit, version, commit>>)>>
      [] step = "rate"      -> <<Printf("Success rate limit exceeded for %s", <<ip>>)>>
      [] step = "accept"    ->
           <<Printf("Deployment triggered by client v%s (commit: %s)",
                    <<EnvelopeOf(r).version, EnvelopeOf(r).commit>>)>>
      [] OTHER -> << >>

\* log.Printf of RecordFailure when the failure it has recorded sets the ban
\* (read once RecordFailure has returned).
BanLog(step, ip) ==
    IF step \in FailureSteps /\ Get(failedRequests, ip, 0) >= failLimit
      THEN <<Printf("IP %s banned for %v after %d failed attempts",
                    <<ip, ToString(banDuration), ToString(Get(failedRequests, ip, 0))>>)>>
      ELSE << >>

ResponseBody_EchoesCounter(step, r, hidden) ==
    CASE step = "method"    -> Printf("Method not allowed", << >>)
      [] step = "ban"       -> Printf("Forbidden", << >>)
      [] step = "signature" ->
           Printf("Unauthorized: attempt %d", <<ToString(hidden.failed)>>)
      [] step = "replay"    -> Printf("Invalid or replayed timestamp", << >>)
      [] step = "version"   ->
           Printf("Version mismatch: server=%s/%s client=%s/%s",
                  <<version, commit, EnvelopeOf(r).version, EnvelopeOf(r).commit>>)
      [] step = "rate"      -> Printf("Rate limit exceeded", << >>)
      [] step = "accept"    -> Printf("Deployment triggered\n", << >>)
      [] OTHER -> Printf("Bad request", << >>)

\* The text given to http.Error, or written after w.WriteHeader.  hidden is
\* what the handler has at hand and no client is to learn: the secret, the
\* signature computed from it, and the limiter's record of the IP.
ResponseBody(step, r, hidden) ==
    CASE step = "method"    -> Printf("Method not allowed", << >>)
      [] step = "ban"       -> Printf("Forbidden", << >>)
      [] step = "signature" -> Printf("Unauthorized", << >>)
      [] step = "replay"    -> Printf("Invalid or replayed timestamp", << >>)
      [] step = "version"   ->
           Printf("Version mismatch: server=%s/%s client=%s/%s",
                  <<version, commit, EnvelopeOf(r).version, EnvelopeOf(r).commit>>)
      [] step = "rate"      -> Printf("Rate limit exceeded", << >>)
      [] step = "accept"    -> Printf("Deployment triggered\n", << >>)
      [] OTHER -> Printf("Bad request", << >>)

\* http.Error / w.WriteHeader followed by return: the handler goroutine ends.
Respond(h, r, ip, log, status, step) ==
    /\ served' = [req |-> r, ip |-> ip, calls |-> log, status |-> status, step |-> step]
    /\ pc' = [pc EXCEPT ![h] = "idle"]
    /\ hreq' = [hreq EXCEPT ![h] = NoRequest]
    /\ hip' = [hip EXCEPT ![h] = ""]
    /\ calls' = [calls EXCEPT ![h] = << >>]

Proceed(h, to, log) ==
    /\ pc' = [pc EXCEPT ![h] = to]
    /\ calls' = [calls EXCEPT ![h] = log]
    /\ UNCHANGED <<hreq, hip, served>>

Failed(h) == Append(calls[h], <<"RecordFailure", TRUE>>)

Receive_BanCountsFailure(h) ==
    /\ pc[h] = "idle"
    /\ started < MaxRequests
    /\ started' = started + 1
    /\ \E r \in Requests, ip \in IPs :
         IF Fails(r, "method")
           THEN /\ Respond(h, r, ip, << >>, StatusMethodNotAllowed, "method")
                /\ UNCHANGED maps
           ELSE IF ip \in DOMAIN bannedUntil /\ now < bannedUntil[ip]
                  THEN /\ RecordFailure(ip)
                       /\ Respond(h, r, ip, << <<"IsBanned", TRUE>> >>,
                                  StatusForbidden, "ban")
                  ELSE /\ IsBanned(ip, FALSE)
                       /\ pc' = [pc EXCEPT ![h] = "read"]
                       /\ hreq' = [hreq EXCEPT ![h] = r]
                       /\ hip' = [hip EXCEPT ![h] = ip]
                       /\ calls' = [calls EXCEPT ![h] = << <<"IsBanned", FALSE>> >>]
                       /\ UNCHANGED served
    /\ UNCHANGED <<now, config, rest, last, ghosts, deploys>>

\* A request arrives and a handler goroutine serves it: method check,
\* identity resolution, ban check.
Receive(h) ==
    /\ pc[h] = "idle"
    /\ started < MaxRequests
    /\ started' = started + 1
    /\ \E r \in Requests, ip \in IPs :
         IF Fails(r, "method")
           THEN /\ Respond(h, r, ip, << >>, StatusMethodNotAllowed, "method")
                /\ UNCHANGED maps
           ELSE \E ret \in BOOLEAN :
                  /\ IsBanned(ip, ret)
                  /\ IF ret
                       THEN Respond(h, r, ip, << <<"IsBanned", ret>> >>,
                                    StatusForbidden, "ban")
                       ELSE /\ pc' = [pc EXCEPT ![h] = "read"]
                            /\ hreq' = [hreq EXCEPT ![h] = r]
                            /\ hip' = [hip EXCEPT ![h] = ip]
                            /\ calls' = [calls EXCEPT ![h] = << <<"IsBanned", ret>> >>]
                            /\ UNCHANGED served
    /\ UNCHANGED <<now, config, rest, last, ghosts, deploys>>

LocalCheck_SignatureFirst(r) ==
    IF Fails(r, "signature") THEN <<"signature", StatusUnauthorized>>
    ELSE IF Fails(r, "body") THEN <<"body", StatusBadRequest>>
    ELSE IF Fails(r, "decode") THEN <<"decode", StatusBadRequest>>
    ELSE IF Fails(r, "timestamp") THEN <<"timestamp", StatusBadRequest>>
    ELSE <<"none", 0>>

LocalCheck_DecodeFirst(r) ==
    IF Fails(r, "body") THEN <<"body", StatusBadRequest>>
    ELSE IF Fails(r, "decode") THEN <<"decode", StatusBadRequest>>
    ELSE IF Fails(r, "signature") THEN <<"signature", StatusUnauthorized>>
    ELSE IF Fails(r, "timestamp") THEN <<"timestamp", StatusBadRequest>>
    ELSE <<"none", 0>>

\* Body read, signature verification, envelope decode, timestamp parse:
\* the first of them that fails, with the status it answers.
LocalCheck(r) ==
    IF Fails(r, "body") THEN <<"body", StatusBadRequest>>
    ELSE IF Fails(r, "signature") THEN <<"signature", StatusUnauthorized>>
    ELSE IF Fails(r, "decode") THEN <<"decode", StatusBadRequest>>
    ELSE IF Fails(r, "timestamp") THEN <<"timestamp", StatusBadRequest>>
    ELSE <<"none", 0>>

Authenticate_Unverified(h) ==
    /\ pc[h] = "read"
    /\ \E ret \in BOOLEAN :
         /\ CheckReplay(hreq[h].ts, ret)
         /\ Accepted(hreq[h].ts, ret)
         /\ Proceed(h, IF ret THEN "compat" ELSE "replayed",
                    Append(calls[h], <<"CheckReplay", ret>>))
    /\ UNCHANGED <<now, config, rest, last, streak, nFail, lastFailAt, grants, tries,
                   deploys, started>>

Authenticate_CompatFirst(h) ==
    /\ pc[h] = "read"
    /\ IF LocalCheck(hreq[h])[1] # "none"
         THEN /\ RecordFailure(hip[h])
              /\ Respond(h, hreq[h], hip[h], Failed(h),
                         LocalCheck(hreq[h])[2], LocalCheck(hreq[h])[1])
              /\ UNCHANGED accepts
         ELSE IF Fails(hreq[h], "version")
                THEN /\ RecordFailure(hip[h])
                     /\ Respond(h, hreq[h], hip[h], Failed(h), StatusBadRequest, "version")
                     /\ UNCHANGED accepts
                ELSE \E ret \in BOOLEAN :
                       /\ CheckReplay(hreq[h].ts, ret)
                       /\ Accepted(hreq[h].ts, ret)
                       /\ Proceed(h, IF ret THEN "compat" ELSE "replayed",
                                  Append(calls[h], <<"CheckReplay", ret>>))
    /\ UNCHANGED <<now, config, rest, last, streak, nFail, lastFailAt, grants, tries,
                   deploys, started>>

\* The local checks, and then either the RecordFailure of the check that
\* failed or CheckReplay.
Authenticate(h) ==
    /\ pc[h] = "read"
    /\ IF LocalCheck(hreq[h])[1] # "none"
         THEN /\ RecordFailure(hip[h])
              /\ Respond(h, hreq[h], hip[h], Failed(h),
                         LocalCheck(hreq[h])[2], LocalCheck(hreq[h])[1])
              /\ UNCHANGED accepts
         ELSE \E ret \in BOOLEAN :
                /\ CheckReplay(hreq[h].ts, ret)
                /\ Accepted(hreq[h].ts, ret)
                /\ Proceed(h, IF ret THEN "compat" ELSE "replayed",
                           Append(calls[h], <<"CheckReplay", ret>>))
    /\ UNCHANGED <<now, config, rest, last, streak, nFail, lastFailAt, grants, tries,
                   deploys, started>>

RejectReplay_Unauthorized(h) ==
    /\ pc[h] = "replayed"
    /\ RecordFailure(hip[h])
    /\ Respond(h, hreq[h], hip[h], Failed(h), StatusUnauthorized, "replay")
    /\ UNCHANGED <<now, config, rest, last, ghosts, deploys, started>>

RejectReplay_NoFailure(h) ==
    /\ pc[h] = "replayed"
    /\ Respond(h, hreq[h], hip[h], calls[h], StatusBadRequest, "replay")
    /\ UNCHANGED <<now, maps, config, rest, last, ghosts, deploys, started>>

\* CheckReplay returned false.
RejectReplay(h) ==
    /\ pc[h] = "replayed"
    /\ RecordFailure(hip[h])
    /\ Respond(h, hreq[h], hip[h], Failed(h), StatusBadRequest, "replay")
    /\ UNCHANGED <<now, config, rest, last, ghosts, deploys, started>>

Complete_ThrottleCountsFailure(h) ==
    /\ pc[h] = "compat"
    /\ IF Fails(hreq[h], "version")
         THEN /\ RecordFailure(hip[h])
              /\ Respond(h, hreq[h], hip[h], Failed(h), StatusBadRequest, "version")
              /\ UNCHANGED deploys
         ELSE IF Len(Recent(hip[h])) >= successLimit
                THEN /\ RecordFailure(hip[h])
                     /\ UNCHANGED deploys
                     /\ Respond(h, hreq[h], hip[h],
                                Append(calls[h], <<"RecordSuccess", FALSE>>),
                                StatusTooManyRequests, "rate")
                ELSE /\ RecordSuccess(hip[h], TRUE)
                     /\ deploys' = Put(deploys, hreq[h], Get(deploys, hreq[h], 0) + 1)
                     /\ Respond(h, hreq[h], hip[h],
                                Append(calls[h], <<"RecordSuccess", TRUE>>),
                                StatusAccepted, "accept")
    /\ UNCHANGED <<now, config, rest, last, ghosts, started>>

\* Compatibility check, success-rate check, and the deploy goroutine.
Complete(h) ==
    /\ pc[h] = "compat"
    /\ IF Fails(hreq[h], "version")
         THEN /\ RecordFailure(hip[h])
              /\ Respond(h, hreq[h], hip[h], Failed(h), StatusBadRequest, "version")
              /\ UNCHANGED deploys
         ELSE \E ret \in BOOLEAN :
                /\ RecordSuccess(hip[h], ret)
                /\ IF ret
                     THEN /\ deploys' = Put(deploys, hreq[h], Get(deploys, hreq[h], 0) + 1)
                          /\ Respond(h, hreq[h], hip[h],
                                     Append(calls[h], <<"RecordSuccess", ret>>),
                                     StatusAccepted, "accept")
                     ELSE /\ UNCHANGED deploys
                          /\ Respond(h, hreq[h], hip[h],
                                     Append(calls[h], <<"RecordSuccess", ret>>),
                                     StatusTooManyRequests, "rate")
    /\ UNCHANGED <<now, config, rest, last, ghosts, started>>

NextDeploy ==
    \/ Elapse
    \/ \E h \in Handlers : Receive(h)
    \/ \E h \in Handlers : Authenticate(h)
    \/ \E h \in Handlers : RejectReplay(h)
    \/ \E h \in Handlers : Complete(h)

SpecDeploy == InitDeploy /\ [][NextDeploy]_vars

(***************************************************************************)
(* The listener with its other endpoints.  /health, and /version when it   *)
(* is enabled, answer 200 without consulting the limiter.                  *)
(***************************************************************************)
StatusOK == 200

OpenPaths == {"/health", "/version"}

Probe(ip, path) ==
    /\ started < MaxRequests
    /\ started' = started + 1
    /\ served' = [req |-> NoRequest, ip |-> ip, calls |-> << >>,
                  status |-> StatusOK, step |-> path]
    /\ UNCHANGED <<now, maps, config, rest, last, ghosts, pc, hreq, hip, calls, deploys>>

NextListener ==
    \/ NextDeploy
    \/ \E ip \in IPs, path \in OpenPaths : Probe(ip, path)

SpecListener == InitDeploy /\ [][NextListener]_vars

(***************************************************************************)
(* The listener over the life of a ban.  Between two steps of the handlers *)
(* the ban duration may pass without a request arriving; a handler that    *)
(* is waiting for the body of its request (io.ReadAll on a connection with *)
(* no read deadline: main serves with http.ListenAndServe) is then still   *)
(* in flight.                                                              *)
(***************************************************************************)
Sleep ==
    /\ now <= MaxClock
    /\ now' = now + banDuration
    /\ UNCHANGED <<maps, config, rest, last, ghosts, server>>

NextExpiry ==
    \/ NextDeploy
    \/ Sleep

SpecExpiry == InitDeploy /\ [][NextExpiry]_vars

(***************************************************************************)
(* The replay guard over a long life of the process.  The clock runs for   *)
(* longer than the retention window, so that entries are pruned; the       *)
(* timestamp presented is the clock plus an offset: the two ends of the    *)
(* acceptance window, the clock itself, and offsets that present again,    *)
(* once it has been pruned, a timestamp accepted a retention window ago.   *)
(* The retention window is the listener's 10 minutes, or 6 or 7 minutes.   *)
(***************************************************************************)
MaxLife == 11       \* the clock of the long-lived process runs from 0 to MaxLife
MaxPresented == 3   \* CheckReplay calls made in the long-lived process

RetentionWindows == {6, 7, 10}

RetentionOffsets == {0 - 10, 0 - 6, 0 - 5, 0, 1}

InitRetention ==
    /\ \E rw \in RetentionWindows :
          NewRateLimiter(ListenerConfig[1], ListenerConfig[2], ListenerConfig[3],
                         ListenerConfig[4], rw)
    /\ InitRest

Age ==
    /\ now < MaxLife
    /\ now' = now + 1
    /\ UNCHANGED <<maps, config, rest, last, ghosts, server>>

Present(d) ==
    /\ last.k < MaxPresented
    /\ \E ret \in BOOLEAN :
         /\ CheckReplay(now + d, ret)
         /\ Called("CheckReplay", "", now + d, ret)
         /\ Accepted(now + d, ret)
    /\ UNCHANGED <<now, config, rest, streak, nFail, lastFailAt, grants, tries, server>>

NextRetention ==
    \/ Age
    \/ \E d \in RetentionOffsets : Present(d)

SpecRetention == InitRetention /\ [][NextRetention]_vars

(***************************************************************************)
(* The limiter called by concurrent goroutines, with its mutex.  A method  *)
(* locks rl.mu on entry (a goroutine blocks while the mutex is held),      *)
(* reads the maps and the clock, writes the maps, and the deferred Unlock  *)
(* runs as it returns.                                                     *)
(***************************************************************************)
LockedTimestamps == {0, 1}

MethodCalls ==
    [op : {"IsBanned", "RecordSuccess", "RecordFailure"}, ip : IPs, ts : {0}]
       \cup [op : {"CheckReplay"}, ip : {""}, ts : LockedTimestamps]

Lock_NoMutex(g) ==
    /\ gor[g].st \in {"idle", "done"}
    /\ last.k < MaxLocked
    /\ \E c \in MethodCalls :
          gor' = [gor EXCEPT ![g] = [st |-> "locked", op |-> c.op, ip |-> c.ip,
                                     ts |-> c.ts, ret |-> FALSE]]
    /\ mu' = TRUE
    /\ last' = [last EXCEPT !.k = @ + 1]
    /\ UNCHANGED <<now, maps, config, ghosts, server, jobs, sig, cli>>

\* rl.mu.Lock() at the head of each method.
Lock(g) ==
    /\ gor[g].st \in {"idle", "done"}
    /\ last.k < MaxLocked
    /\ ~mu
    /\ \E c \in MethodCalls :
          gor' = [gor EXCEPT ![g] = [st |-> "locked", op |-> c.op, ip |-> c.ip,
                                     ts |-> c.ts, ret |-> FALSE]]
    /\ mu' = TRUE
    /\ last' = [last EXCEPT !.k = @ + 1]
    /\ UNCHANGED <<now, maps, config, ghosts, server, jobs, sig, cli>>

\* The reads of the method: the clock and the entries of the maps it consults.
Load(g) ==
    /\ gor[g].st = "locked"
    /\ LET c == gor[g] IN
       gor' = [gor EXCEPT ![g] =
                 [st |-> "loaded", op |-> c.op, ip |-> c.ip, ts |-> c.ts, ret |-> FALSE,
                  at |-> now,
                  banned |-> c.ip \in DOMAIN bannedUntil,
                  before |-> (c.ip \in DOMAIN bannedUntil /\ now < bannedUntil[c.ip]),
                  outside |-> OutsideWindow(c.ts),
                  seen |-> c.ts \in DOMAIN seenTimestamps,
                  retained |-> Retained(seenTimestamps),
                  recent |-> Recent(c.ip),
                  failed |-> Get(failedRequests, c.ip, 0)]]
    /\ UNCHANGED <<now, maps, config, last, ghosts, server, mu, jobs, sig, cli>>

\* What the method writes and returns, from what it read.
StoreIsBanned(c, ret) ==
    /\ ret = (c.banned /\ c.before)
    /\ IF c.banned /\ ~c.before
         THEN /\ bannedUntil' = Del(bannedUntil, c.ip)
              /\ failedRequests' = Del(failedRequests, c.ip)
         ELSE UNCHANGED <<bannedUntil, failedRequests>>
    /\ UNCHANGED <<successRequests, seenTimestamps>>

StoreCheckReplay(c, ret) ==
    /\ ret = (~c.outside /\ ~c.seen)
    /\ seenTimestamps' = IF ret THEN Put(c.retained, c.ts, c.at) ELSE seenTimestamps
    /\ UNCHANGED <<successRequests, failedRequests, bannedUntil>>

StoreRecordSuccess(c, ret) ==
    /\ ret = (Len(c.recent) < successLimit)
    /\ IF ret
         THEN /\ successRequests' = Put(successRequests, c.ip, Append(c.recent, c.at))
              /\ failedRequests' = Del(failedRequests, c.ip)
         ELSE UNCHANGED <<successRequests, failedRequests>>
    /\ UNCHANGED <<bannedUntil, seenTimestamps>>

StoreRecordFailure(c, ret) ==
    /\ ret = TRUE
    /\ failedRequests' = Put(failedRequests, c.ip, c.failed + 1)
    /\ IF c.failed + 1 >= failLimit
         THEN bannedUntil' = Put(bannedUntil, c.ip, now + banDuration)
         ELSE UNCHANGED bannedUntil
    /\ UNCHANGED <<successRequests, seenTimestamps>>

\* The writes of the method, its return, and the deferred rl.mu.Unlock().
Store(g) ==
    /\ gor[g].st = "loaded"
    /\ LET c == gor[g] IN
       \E ret \in BOOLEAN :
          /\ CASE c.op = "IsBanned" -> StoreIsBanned(c, ret)
               [] c.op = "CheckReplay" -> StoreCheckReplay(c, ret)
               [] c.op = "RecordSuccess" -> StoreRecordSuccess(c, ret)
               [] c.op = "RecordFailure" -> StoreRecordFailure(c, ret)
          /\ gor' = [gor EXCEPT ![g] = [st |-> "done", op |-> c.op, ip |-> c.ip,
                                        ts |-> c.ts, ret |-> ret]]
          /\ accepts' = IF c.op = "CheckReplay" /\ ret
                          THEN Put(accepts, c.ts, Append(Get(accepts, c.ts, << >>), c.at))
                          ELSE accepts
          /\ grants' = IF c.op = "RecordSuccess" /\ ret
                         THEN [grants EXCEPT ![c.ip] = Append(@, c.at)]
                         ELSE grants
          /\ streak' = IF c.op = "RecordFailure"
                         THEN [streak EXCEPT ![c.ip] = @ + 1]
                         ELSE IF c.op = "RecordSuccess" /\ ret
                                THEN [streak EXCEPT ![c.ip] = 0]
                                ELSE streak
    /\ mu' = FALSE
    /\ UNCHANGED <<now, config, last, nFail, lastFailAt, tries, server, jobs, sig, cli>>

NextLocked ==
    \/ Elapse
    \/ \E g \in Handlers : Lock(g)
    \/ \E g \in Handlers : Load(g)
    \/ \E g \in Handlers : Store(g)

SpecLocked == InitDeploy /\ [][NextLocked]_vars

(***************************************************************************)
(* The /deploy handler with its deploy goroutine.  After RecordSuccess     *)
(* the handler executes the go statement and then writes the response;     *)
(* the goroutine runs deploy(): docker compose pull, then docker compose   *)
(* up, either of which may fail.  The scheduler orders the goroutine's     *)
(* steps and the handler's freely.                                         *)
(***************************************************************************)
Trigger_CancelsRunning(h) ==
    /\ pc[h] = "compat"
    /\ IF Fails(hreq[h], "version")
         THEN /\ RecordFailure(hip[h])
              /\ Respond(h, hreq[h], hip[h], Failed(h), StatusBadRequest, "version")
              /\ UNCHANGED <<deploys, jobs>>
         ELSE \E ret \in BOOLEAN :
                /\ RecordSuccess(hip[h], ret)
                /\ IF ret
                     THEN /\ deploys' = Put(deploys, hreq[h], Get(deploys, hreq[h], 0) + 1)
                          /\ jobs' = Append([j \in DOMAIN jobs |->
                                               IF jobs[j].st \in {"pull", "up"}
                                                 THEN [jobs[j] EXCEPT !.st = "failed"]
                                                 ELSE jobs[j]],
                                            [h |-> h, st |-> "spawned", answered |-> FALSE])
                          /\ Proceed(h, "spawned",
                                     Append(calls[h], <<"RecordSuccess", ret>>))
                     ELSE /\ UNCHANGED <<deploys, jobs>>
                          /\ Respond(h, hreq[h], hip[h],
                                     Append(calls[h], <<"RecordSuccess", ret>>),
                                     StatusTooManyRequests, "rate")
    /\ UNCHANGED <<now, config, last, ghosts, started, mu, gor, sig, cli>>

\* Compatibility check, success-rate check and the go statement.
Trigger(h) ==
    /\ pc[h] = "compat"
    /\ IF Fails(hreq[h], "version")
         THEN /\ RecordFailure(hip[h])
              /\ Respond(h, hreq[h], hip[h], Failed(h), StatusBadRequest, "version")
              /\ UNCHANGED <<deploys, jobs>>
         ELSE \E ret \in BOOLEAN :
                /\ RecordSuccess(hip[h], ret)
                /\ IF ret
                     THEN /\ deploys' = Put(deploys, hreq[h], Get(deploys, hreq[h], 0) + 1)
                          /\ jobs' = Append(jobs, [h |-> h, st |-> "spawned",
                                                   answered |-> FALSE])
                          /\ Proceed(h, "spawned",
                                     Append(calls[h], <<"RecordSuccess", ret>>))
                     ELSE /\ UNCHANGED <<deploys, jobs>>
                          /\ Respond(h, hreq[h], hip[h],
                                     Append(calls[h], <<"RecordSuccess", ret>>),
                                     StatusTooManyRequests, "rate")
    /\ UNCHANGED <<now, config, last, ghosts, started, mu, gor, sig, cli>>

\* The deploy goroutine started for the request handler h is serving.
JobOf(h) == CHOOSE j \in DOMAIN jobs : jobs[j].h = h /\ ~jobs[j].answered

\* w.WriteHeader(dchook.DeployAcceptedStatus) and the return of the handler.
WriteAccepted(h) ==
    /\ pc[h] = "spawned"
    /\ Respond(h, hreq[h], hip[h], calls[h], StatusAccepted, "accept")
    /\ jobs' = [jobs EXCEPT ![JobOf(h)].answered = TRUE]
    /\ UNCHANGED <<now, maps, config, last, ghosts, deploys, started, mu, gor, sig, cli>>

\* The goroutine is scheduled: deploy() starts docker compose pull.
DeployStart(j) ==
    /\ jobs[j].st = "spawned"
    /\ jobs' = [jobs EXCEPT ![j].st = "pull"]
    /\ UNCHANGED <<now, maps, config, last, ghosts, server, mu, gor, sig, cli>>

\* pullCmd.Run() returns: on an error deploy returns it, else up is run.
DeployPull(j) ==
    /\ jobs[j].st = "pull"
    /\ \E ok \in BOOLEAN : jobs' = [jobs EXCEPT ![j].st = IF ok THEN "up" ELSE "failed"]
    /\ UNCHANGED <<now, maps, config, last, ghosts, server, mu, gor, sig, cli>>

\* upCmd.Run() returns.
DeployUp(j) ==
    /\ jobs[j].st = "up"
    /\ \E ok \in BOOLEAN :
          jobs' = [jobs EXCEPT ![j].st = IF ok THEN "complete" ELSE "failed"]
    /\ UNCHANGED <<now, maps, config, last, ghosts, server, mu, gor, sig, cli>>

\* The requests of SpecAsync are served one after another.
AsyncHandlers == {1}

NextAsync ==
    \/ Elapse
    \/ \E h \in AsyncHandlers : Receive(h)
    \/ \E h \in AsyncHandlers : Authenticate(h)
    \/ \E h \in AsyncHandlers : RejectReplay(h)
    \/ \E h \in AsyncHandlers : Trigger(h)
    \/ \E h \in AsyncHandlers : WriteAccepted(h)
    \/ \E j \in DOMAIN jobs : DeployStart(j)
    \/ \E j \in DOMAIN jobs : DeployPull(j)
    \/ \E j \in DOMAIN jobs : DeployUp(j)

SpecAsync == InitDeploy /\ [][NextAsync]_vars

(***************************************************************************)
(* The /deploy handlers with the mutex.  A handler goroutine calls the      *)
(* limiter's methods one after another, each time blocking in rl.mu.Lock() *)
(* until the mutex is free; the method reads, writes and unlocks (Load,    *)
(* Store above), and the handler goes on with the value returned.          *)
(***************************************************************************)
MaxServed == 3    \* requests received by the handlers that take the mutex

\* The requests the handlers receive: one for each path through the handler
\* (the local checks share one), with timestamps that CheckReplay accepts
\* (0 and 1) and rejects (2) while the clock stands at 0.  They come from
\* one address, so that MaxServed requests take every return of the methods
\* that does not need an hour to pass.
MutexRequests ==
    [defect : {"method", "signature", "version"}, ts : {0}]
      \cup [defect : {"valid"}, ts : LockedTimestamps \cup {2}]

MutexIPs == {"10.0.0.1"}

\* The positions at which a handler is in a call of a RateLimiter method.
Calling == {"ban", "read", "replayed", "compat"}

\* The method a handler calls at its position.
MethodAt(h) ==
    CASE pc[h] = "ban" -> [op |-> "IsBanned", ip |-> hip[h], ts |-> 0]
      [] pc[h] = "read" ->
           IF LocalCheck(hreq[h])[1] # "none"
             THEN [op |-> "RecordFailure", ip |-> hip[h], ts |-> 0]
             ELSE [op |-> "CheckReplay", ip |-> "", ts |-> hreq[h].ts]
      [] pc[h] = "replayed" -> [op |-> "RecordFailure", ip |-> hip[h], ts |-> 0]
      [] pc[h] = "compat" ->
           IF Fails(hreq[h], "version")
             THEN [op |-> "RecordFailure", ip |-> hip[h], ts |-> 0]
             ELSE [op |-> "RecordSuccess", ip |-> hip[h], ts |-> 0]

\* A request arrives: method check and identity resolution, up to the call
\* of limiter.IsBanned.
Arrive(h) ==
    /\ pc[h] = "idle"
    /\ started < MaxServed
    /\ started' = started + 1
    /\ \E r \in MutexRequests, ip \in MutexIPs :
         IF Fails(r, "method")
           THEN Respond(h, r, ip, << >>, StatusMethodNotAllowed, "method")
           ELSE /\ pc' = [pc EXCEPT ![h] = "ban"]
                /\ hreq' = [hreq EXCEPT ![h] = r]
                /\ hip' = [hip EXCEPT ![h] = ip]
                /\ UNCHANGED <<calls, served>>
    /\ UNCHANGED <<now, maps, config, rest, last, ghosts, deploys>>

\* rl.mu.Lock() returns in the method the handler has called.
Acquire(h) ==
    /\ pc[h] \in Calling
    /\ gor[h].st = "idle"
    /\ ~mu
    /\ gor' = [gor EXCEPT ![h] = [st |-> "locked", op |-> MethodAt(h).op,
                                  ip |-> MethodAt(h).ip, ts |-> MethodAt(h).ts,
                                  ret |-> FALSE]]
    /\ mu' = TRUE
    /\ UNCHANGED <<now, maps, config, last, ghosts, server, jobs, sig, cli>>

\* What the handler does with the value ret its call has returned: it
\* writes a response or goes on to its next call.
Continue(h, op, ret) ==
    LET log == Append(calls[h], <<op, ret>>)
    IN  CASE pc[h] = "ban" ->
               /\ IF ret
                    THEN Respond(h, hreq[h], hip[h], log, StatusForbidden, "ban")
                    ELSE Proceed(h, "read", log)
               /\ UNCHANGED deploys
          [] pc[h] = "read" ->
               /\ IF op = "RecordFailure"
                    THEN Respond(h, hreq[h], hip[h], log,
                                 LocalCheck(hreq[h])[2], LocalCheck(hreq[h])[1])
                    ELSE Proceed(h, IF ret THEN "compat" ELSE "replayed", log)
               /\ UNCHANGED deploys
          [] pc[h] = "replayed" ->
               /\ Respond(h, hreq[h], hip[h], log, StatusBadRequest, "replay")
               /\ UNCHANGED deploys
          [] pc[h] = "compat" ->
               IF op = "RecordFailure"
                 THEN /\ Respond(h, hreq[h], hip[h], log, StatusBadRequest, "version")
                      /\ UNCHANGED deploys
                 ELSE IF ret
                        THEN /\ deploys' = Put(deploys, hreq[h],
                                               Get(deploys, hreq[h], 0) + 1)
                             /\ Respond(h, hreq[h], hip[h], log,
                                        StatusAccepted, "accept")
                        ELSE /\ UNCHANGED deploys
                             /\ Respond(h, hreq[h], hip[h], log,
                                        StatusTooManyRequests, "rate")

\* The body of the method under the mutex, with the value it returns.
Method(c, ret) ==
    CASE c.op = "IsBanned" -> IsBanned(c.ip, ret)
      [] c.op = "CheckReplay" -> CheckReplay(c.ts, ret)
      [] c.op = "RecordSuccess" -> RecordSuccess(c.ip, ret)
      [] c.op = "RecordFailure" -> RecordFailure(c.ip) /\ ret = TRUE

Run_UnlockNotDeferred(h) ==
    /\ gor[h].st = "locked"
    /\ gor' = [gor EXCEPT ![h] = NoMethod]
    /\ \E ret \in BOOLEAN :
         /\ Method(gor[h], ret)
         /\ mu' = (gor[h].op \in {"IsBanned", "CheckReplay"} /\ ret = (gor[h].op = "IsBanned"))
         /\ Continue(h, gor[h].op, ret)
    /\ UNCHANGED <<now, config, last, ghosts, started, jobs, sig, cli>>

\* The method runs holding the mutex and returns; the deferred
\* rl.mu.Unlock() runs on every return; the handler goes on.
Run(h) ==
    /\ gor[h].st = "locked"
    /\ gor' = [gor EXCEPT ![h] = NoMethod]
    /\ \E ret \in BOOLEAN :
         /\ Method(gor[h], ret)
         /\ mu' = FALSE
         /\ Continue(h, gor[h].op, ret)
    /\ UNCHANGED <<now, config, last, ghosts, started, jobs, sig, cli>>

\* No step of a method waits for the clock, which stands still here.
NextMutex ==
    \/ \E h \in Handlers : Arrive(h)
    \/ \E h \in Handlers : Acquire(h)
    \/ \E h \in Handlers : Run(h)

\* The Go scheduler runs every runnable goroutine, and sync.Mutex hands the
\* mutex to a goroutine that keeps waiting for it (its starvation mode), so
\* a waiting goroutine is not passed over for ever.
Fairness ==
    \A h \in Handlers : SF_vars(Acquire(h)) /\ WF_vars(Run(h))

SpecMutex == InitDeploy /\ [][NextMutex]_vars /\ Fairness

(***************************************************************************)
(* Signatures.  Strings are strings; the HMAC of the standard library is   *)
(* an injective function of algorithm, key and message (here the three     *)
(* joined with a byte that occurs in no key or message of the model), and  *)
(* hex.EncodeToString turns each of its bytes into two hexadecimal digits. *)
(***************************************************************************)
Char(str, i) == SubSeq(str, i, i)

\* strings.Index: the position of the first sep in str, 0 when there is none.
Index(str, sep) ==
    LET hits == {i \in 1..Len(str) : Char(str, i) = sep}
    IN  IF hits = {} THEN 0 ELSE CHOOSE i \in hits : \A j \in hits : i <= j

\* strings.SplitN(str, sep, 2)
SplitN2(str, sep) ==
    IF Index(str, sep) = 0
      THEN <<str>>
      ELSE <<SubSeq(str, 1, Index(str, sep) - 1),
             SubSeq(str, Index(str, sep) + 1, Len(str))>>

HexDigits ==
    [c \in {"a", "b", ":", "|", "2", "3", "5"} |->
       CASE c = "a" -> "61" [] c = "b" -> "62" [] c = ":" -> "3a" [] c = "|" -> "7c"
         [] c = "2" -> "32" [] c = "3" -> "33" [] c = "5" -> "35"]

RECURSIVE HexEncode(_)
HexEncode(bytes) ==
    IF bytes = "" THEN ""
    ELSE HexDigits[Char(bytes, 1)] \o HexEncode(SubSeq(bytes, 2, Len(bytes)))

HashTag(algorithm) ==
    CASE algorithm = "sha256" -> "2" [] algorithm = "sha384" -> "3"
      [] algorithm = "sha512" -> "5"

\* hmac.New(h, key); mac.Write(message); mac.Sum(nil)
Hmac(algorithm, key, message) == HashTag(algorithm) \o key \o "|" \o message

GenerateSignature_NoSecret(payload, secret, algorithm) ==
    IF algorithm \in {"sha256", "sha384", "sha512"}
      THEN algorithm \o ":" \o HexEncode(Hmac(algorithm, "", payload))
      ELSE ""

GenerateSignature(payload, secret, algorithm) ==
    IF algorithm \in {"sha256", "sha384", "sha512"}
      THEN algorithm \o ":" \o HexEncode(Hmac(algorithm, secret, payload))
      ELSE ""

VerifySignature_Sha256Only(payload, signature, secret, allowedAlgorithms) ==
    LET parts == SplitN2(signature, ":") IN
    IF Len(parts) # 2 THEN FALSE
    ELSE IF ~Get(allowedAlgorithms, parts[1], FALSE) THEN FALSE
    ELSE LET actualSignature == GenerateSignature(payload, secret, "sha256") IN
         IF actualSignature = "" THEN FALSE
         ELSE LET actualParts == SplitN2(actualSignature, ":") IN
              IF Len(actualParts) # 2 THEN FALSE
              ELSE parts[2] = actualParts[2]

VerifySignature_NoAllowCheck(payload, signature, secret, allowedAlgorithms) ==
    LET parts == SplitN2(signature, ":") IN
    IF Len(parts) # 2 THEN FALSE
    ELSE LET actualSignature == GenerateSignature(payload, secret, parts[1]) IN
         IF actualSignature = "" THEN FALSE
         ELSE LET actualParts == SplitN2(actualSignature, ":") IN
              IF Len(actualParts) # 2 THEN FALSE
              ELSE parts[2] = actualParts[2]

VerifySignature(payload, signature, secret, allowedAlgorithms) ==
    LET parts == SplitN2(signature, ":") IN
    IF Len(parts) # 2 THEN FALSE
    ELSE IF ~Get(allowedAlgorithms, parts[1], FALSE) THEN FALSE
    ELSE LET actualSignature == GenerateSignature(payload, secret, parts[1]) IN
         IF actualSignature = "" THEN FALSE
         ELSE LET actualParts == SplitN2(actualSignature, ":") IN
              IF Len(actualParts) # 2 THEN FALSE
              ELSE parts[2] = actualParts[2]

Supported == {"sha256", "sha384", "sha512"}
AlgorithmNames == Supported \cup {"md5", "SHA256", ""}
Payloads == {"", "a", "b", "ab", "a:"}
Secrets == {"", "a", "b"}

\* allowedAlgorithms: map[string]bool
AllowedMaps ==
    { [a \in Supported |-> TRUE],
      [a \in {"sha256"} |-> TRUE],
      [a \in {"sha256", "sha512"} |-> a = "sha512"],
      [a \in {"sha256", "md5", ""} |-> TRUE],
      EmptyMap }

Generated ==
    {GenerateSignature(p, k, a) : p \in Payloads, k \in Secrets, a \in AlgorithmNames}

Crafted ==
    {"", "ab", ":", "sha256:", ":3261", "md5:3261", "sha256:32:61"}

CallGenerateSignature ==
    /\ sig = NoSignature
    /\ \E p \in Payloads, k \in Secrets, a \in AlgorithmNames :
          sig' = [op |-> "GenerateSignature", payload |-> p, secret |-> k,
                  algorithm |-> a, signature |-> GenerateSignature(p, k, a)]
    /\ UNCHANGED <<now, maps, config, last, ghosts, server, mu, gor, jobs, cli>>

CallVerifySignature ==
    /\ sig = NoSignature
    /\ \E p \in Payloads, k \in Secrets, g \in Generated \cup Crafted, m \in AllowedMaps :
          sig' = [op |-> "VerifySignature", payload |-> p, secret |-> k,
                  signature |-> g, allowed |-> m,
                  ret |-> VerifySignature(p, g, k, m)]
    /\ UNCHANGED <<now, maps, config, last, ghosts, server, mu, gor, jobs, cli>>

(***************************************************************************)
(* The listener's startup: the set of allowed algorithms, from the         *)
(* --algorithms flag and DCHOOK_ALLOWED_ALGORITHMS, and the verification   *)
(* the /deploy handler makes with it.                                      *)
(***************************************************************************)
DefaultAlgorithms == "sha256,sha384,sha512"

\* The command line: whether --algorithms is given, and its value.
CommandLines ==
    [given : {FALSE}, value : {""}]
       \cup [given : {TRUE}, value : {"sha256", "sha384,sha512", "md5", ""}]

\* The environment: the value of DCHOOK_ALLOWED_ALGORITHMS, "" when unset.
Environments == {"", "sha256", "sha512, sha256", "md5", DefaultAlgorithms}

\* flag.String("algorithms", "sha256,sha384,sha512", ...) after flag.Parse()
FlagString(cmd) == IF cmd.given THEN cmd.value ELSE DefaultAlgorithms

FlagValue_EnvFirst(flagVal, envVal) ==
    IF envVal # "" THEN [value |-> envVal, err |-> FALSE]
    ELSE IF flagVal # "" THEN [value |-> flagVal, err |-> FALSE]
    ELSE [value |-> "", err |-> TRUE]

\* dchook.FlagValue(flagVal, envVar, flagName), envVal being os.Getenv(envVar)
FlagValue(flagVal, envVal) ==
    IF flagVal # "" THEN [value |-> flagVal, err |-> FALSE]
    ELSE IF envVal # "" THEN [value |-> envVal, err |-> FALSE]
    ELSE [value |-> "", err |-> TRUE]

RECURSIVE Split(_, _)
Split(str, sep) ==
    IF Index(str, sep) = 0
      THEN <<str>>
      ELSE <<SubSeq(str, 1, Index(str, sep) - 1)>>
              \o Split(SubSeq(str, Index(str, sep) + 1, Len(str)), sep)

RECURSIVE TrimSpace(_)
TrimSpace(str) ==
    IF str = "" THEN ""
    ELSE IF Char(str, 1) = " " THEN TrimSpace(SubSeq(str, 2, Len(str)))
    ELSE IF Char(str, Len(str)) = " " THEN TrimSpace(SubSeq(str, 1, Len(str) - 1))
    ELSE str

\* The loop of main over strings.Split(allowedAlgos, ","): the map it builds,
\* and whether it ends in log.Fatalf.
ParseAlgorithms(allowedAlgos) ==
    LET algos == {TrimSpace(Split(allowedAlgos, ",")[i]) :
                     i \in 1..Len(Split(allowedAlgos, ","))}
    IN  [fatal |-> ~(algos \subseteq Supported),
         allowed |-> [a \in algos \cap Supported |-> TRUE]]

\* allowedAlgos of main.
AllowedAlgos(cmd, env) ==
    LET v == FlagValue(FlagString(cmd), env)
    IN  IF v.err THEN DefaultAlgorithms ELSE v.value

Startup ==
    /\ cli.st = "none"
    /\ \E cmd \in CommandLines, env \in Environments :
          LET parsed == ParseAlgorithms(AllowedAlgos(cmd, env)) IN
          cli' = [st |-> IF parsed.fatal THEN "fatal" ELSE "listening",
                  cmd |-> cmd, env |-> env, allowed |-> parsed.allowed]
    /\ UNCHANGED <<now, maps, config, last, ghosts, server, mu, gor, jobs, sig>>

\* dchook.VerifySignature(body, signature, secret, allowedAlgorithms) in the
\* /deploy handler.
HandlerVerify ==
    /\ cli.st = "listening"
    /\ sig = NoSignature
    /\ \E p \in Payloads, k \in Secrets, g \in Generated \cup Crafted :
          sig' = [op |-> "HandlerVerify", payload |-> p, secret |-> k,
                  signature |-> g, allowed |-> cli.allowed,
                  ret |-> VerifySignature(p, g, k, cli.allowed)]
    /\ UNCHANGED <<now, maps, config, last, ghosts, server, mu, gor, jobs, cli>>

NextSignature ==
    \/ CallGenerateSignature
    \/ CallVerifySignature
    \/ Startup
    \/ HandlerVerify

SpecSignature == InitDeploy /\ [][NextSignature]_vars

(***************************************************************************)
(* The helpers of package dchook called once each, as the unit tests call  *)
(* them: IsVersionCompatible, IsPrintableUTF8 and FlagValue.               *)
(***************************************************************************)
\* strings.TrimPrefix(str, prefix), prefix being one character
TrimPrefix(str, prefix) ==
    IF Len(str) >= 1 /\ Char(str, 1) = prefix THEN SubSeq(str, 2, Len(str)) ELSE str

DecimalDigits ==
    [c \in {"0", "1", "2", "3", "4", "5", "6", "7", "8", "9"} |->
       CASE c = "0" -> 0 [] c = "1" -> 1 [] c = "2" -> 2 [] c = "3" -> 3
         [] c = "4" -> 4 [] c = "5" -> 5 [] c = "6" -> 6 [] c = "7" -> 7
         [] c = "8" -> 8 [] c = "9" -> 9]

RECURSIVE ParseDigits(_)
ParseDigits(str) ==
    IF Len(str) = 0 THEN 0
    ELSE 10 * ParseDigits(SubSeq(str, 1, Len(str) - 1)) + DecimalDigits[Char(str, Len(str))]

\* strconv.Atoi(str): an optional sign, then one or more decimal digits.
Atoi(str) ==
    LET signed == Len(str) >= 1 /\ Char(str, 1) \in {"+", "-"}
        digits == IF signed THEN SubSeq(str, 2, Len(str)) ELSE str
    IN  IF digits = "" \/ \E i \in 1..Len(digits) : Char(digits, i) \notin DOMAIN DecimalDigits
          THEN [n |-> 0, err |-> TRUE]
          ELSE [n |-> IF signed /\ Char(str, 1) = "-"
                        THEN 0 - ParseDigits(digits) ELSE ParseDigits(digits),
                err |-> FALSE]

IsVersionCompatible_MajorOnly(clientVer, serverVer, clientCommit, serverCommit) ==
    LET clientSegs == Split(TrimPrefix(clientVer, "v"), ".")
        serverSegs == Split(TrimPrefix(serverVer, "v"), ".")
    IN  IF clientVer = "dev" \/ serverVer = "dev" THEN TRUE
        ELSE IF Len(clientSegs) < 2 \/ Len(serverSegs) < 2 THEN FALSE
        ELSE IF \/ Atoi(clientSegs[1]).err \/ Atoi(clientSegs[2]).err
                \/ Atoi(serverSegs[1]).err \/ Atoi(serverSegs[2]).err THEN FALSE
        ELSE IF Atoi(clientSegs[1]).n # Atoi(serverSegs[1]).n THEN FALSE
        ELSE IF clientVer = serverVer /\ clientCommit # serverCommit THEN FALSE
        ELSE TRUE

IsVersionCompatible_StrippedEqual(clientVer, serverVer, clientCommit, serverCommit) ==
    LET clientSegs == Split(TrimPrefix(clientVer, "v"), ".")
        serverSegs == Split(TrimPrefix(serverVer, "v"), ".")
    IN  IF clientVer = "dev" \/ serverVer = "dev" THEN TRUE
        ELSE IF Len(clientSegs) < 2 \/ Len(serverSegs) < 2 THEN FALSE
        ELSE IF \/ Atoi(clientSegs[1]).err \/ Atoi(clientSegs[2]).err
                \/ Atoi(serverSegs[1]).err \/ Atoi(serverSegs[2]).err THEN FALSE
        ELSE IF \/ Atoi(clientSegs[1]).n # Atoi(serverSegs[1]).n
                \/ Atoi(clientSegs[2]).n # Atoi(serverSegs[2]).n THEN FALSE
        ELSE IF /\ TrimPrefix(clientVer, "v") = TrimPrefix(serverVer, "v")
                /\ clientCommit # serverCommit THEN FALSE
        ELSE TRUE

IsVersionCompatible(clientVer, serverVer, clientCommit, serverCommit) ==
    LET clientSegs == Split(TrimPrefix(clientVer, "v"), ".")
        serverSegs == Split(TrimPrefix(serverVer, "v"), ".")
    IN  IF clientVer = "dev" \/ serverVer = "dev" THEN TRUE
        ELSE IF Len(clientSegs) < 2 \/ Len(serverSegs) < 2 THEN FALSE
        ELSE IF \/ Atoi(clientSegs[1]).err \/ Atoi(clientSegs[2]).err
                \/ Atoi(serverSegs[1]).err \/ Atoi(serverSegs[2]).err THEN FALSE
        ELSE IF \/ Atoi(clientSegs[1]).n # Atoi(serverSegs[1]).n
                \/ Atoi(clientSegs[2]).n # Atoi(serverSegs[2]).n THEN FALSE
        ELSE IF clientVer = serverVer /\ clientCommit # serverCommit THEN FALSE
        ELSE TRUE

\* The versions of TestIsVersionCompatible, and others in their shape.
Versions ==
    {"dev", "v1.0.0", "v1.0.1", "v1.1.0", "v2.0.0", "1.0.0", "1.0.1", "invalid", "v1",
     "", "v1.0", "1.0", "vv1.0", "v01.0", "v1.x", "v.0", "v1..0", "+1.0", "v1.0.dev"}

Commits == {"abc123", "def456", "unknown", ""}

CallIsVersionCompatible ==
    /\ sig = NoSignature
    /\ \E cv \in Versions, sv \in Versions, cc \in Commits, sc \in Commits :
          sig' = [op |-> "IsVersionCompatible", clientVer |-> cv, serverVer |-> sv,
                   clientCommit |-> cc, serverCommit |-> sc,
                   ret |-> IsVersionCompatible(cv, sv, cc, sc)]
    /\ UNCHANGED <<now, maps, config, last, ghosts, server, mu, gor, jobs, cli>>

\* The replacement character U+FFFD, which a range loop over a string yields
\* for every byte that starts no well-formed UTF-8 sequence.
RuneError == 65533

\* b is a continuation byte within lo..hi
Continues(data, i, lo, hi) == Len(data) >= i /\ data[i] >= lo /\ data[i] <= hi

\* The first rune of a non-empty byte string and its width, as a range loop
\* over string(data) decodes it.
DecodeRune(data) ==
    LET b0 == data[1]
        lo == CASE b0 = 224 -> 160 [] b0 = 240 -> 144 [] OTHER -> 128
        hi == CASE b0 = 237 -> 159 [] b0 = 244 -> 143 [] OTHER -> 191
    IN  IF b0 < 128 THEN [r |-> b0, size |-> 1]
        ELSE IF b0 >= 194 /\ b0 <= 223 /\ Continues(data, 2, 128, 191)
          THEN [r |-> (b0 - 192) * 64 + (data[2] - 128), size |-> 2]
        ELSE IF /\ b0 >= 224 /\ b0 <= 239
                /\ Continues(data, 2, lo, hi) /\ Continues(data, 3, 128, 191)
          THEN [r |-> (b0 - 224) * 4096 + (data[2] - 128) * 64 + (data[3] - 128),
                size |-> 3]
        ELSE IF /\ b0 >= 240 /\ b0 <= 244
                /\ Continues(data, 2, lo, hi) /\ Continues(data, 3, 128, 191)
                /\ Continues(data, 4, 128, 191)
          THEN [r |-> (b0 - 240) * 262144 + (data[2] - 128) * 4096
                        + (data[3] - 128) * 64 + (data[4] - 128),
                size |-> 4]
        ELSE [r |-> RuneError, size |-> 1]

RECURSIVE IsPrintableUTF8_AllControls(_)
IsPrintableUTF8_AllControls(data) ==
    IF Len(data) = 0 THEN TRUE
    ELSE LET r == DecodeRune(data).r IN
         IF r = RuneError \/ r < 32 \/ r = 127
           THEN FALSE
           ELSE IsPrintableUTF8_AllControls(SubSeq(data, DecodeRune(data).size + 1, Len(data)))

RECURSIVE IsPrintableUTF8(_)
IsPrintableUTF8(data) ==
    IF Len(data) = 0 THEN TRUE
    ELSE LET r == DecodeRune(data).r IN
         IF r = RuneError \/ (r < 32 /\ r # 9 /\ r # 10 /\ r # 13) \/ r = 127
           THEN FALSE
           ELSE IsPrintableUTF8(SubSeq(data, DecodeRune(data).size + 1, Len(data)))

\* Bytes in the shape of TestIsPrintableUTF8's: controls, text, DEL,
\* continuation bytes, lead bytes of two, three and four byte sequences, and
\* bytes that occur in no UTF-8 text.
TextBytes ==
    {0, 9, 10, 13, 31, 32, 65, 127, 128, 159, 160, 189, 191, 194, 224, 237, 239, 240, 255}

MaxText == 3

RECURSIVE ByteStrings(_)
ByteStrings(n) ==
    IF n = 0 THEN {<< >>}
    ELSE ByteStrings(n - 1)
           \cup {Append(d, b) : d \in {e \in ByteStrings(n - 1) : Len(e) = n - 1},
                                b \in TextBytes}

TestData ==
    ByteStrings(MaxText)
      \cup {<<240, 159, 154, 128>>, <<65, 240, 159, 154, 128>>, <<255, 254>>, <<0, 1, 2>>,
            <<244, 143, 191, 191>>, <<244, 144, 128, 128>>, <<65, 239, 191, 189>>}

CallIsPrintableUTF8 ==
    /\ sig = NoSignature
    /\ \E data \in TestData :
          sig' = [op |-> "IsPrintableUTF8", data |-> data, ret |-> IsPrintableUTF8(data)]
    /\ UNCHANGED <<now, maps, config, last, ghosts, server, mu, gor, jobs, cli>>

\* The flag and environment values of TestFlagValue, and others in their shape.
FlagValues == {"", "from-flag", "from-env", " ", "0"}

CallFlagValue ==
    /\ sig = NoSignature
    /\ \E flagVal \in FlagValues, envVal \in FlagValues :
          sig' = [op |-> "FlagValue", flagVal |-> flagVal, envVal |-> envVal,
                   ret |-> FlagValue(flagVal, envVal)]
    /\ UNCHANGED <<now, maps, config, last, ghosts, server, mu, gor, jobs, cli>>

NextUtil ==
    \/ CallIsVersionCompatible
    \/ CallIsPrintableUTF8
    \/ CallFlagValue

SpecUtil == InitDeploy /\ [][NextUtil]_vars

(***************************************************************************)
(* dchook-notify: one run of main, from flag.Parse to the exit code.  The  *)
(* run is followed through its phases: the command line, the               *)
(* configuration (URL, secret file, algorithm), the payload, the request,  *)
(* and the listener's answer.                                              *)
(***************************************************************************)
ExitSuccess         == 0
ExitConfigError     == 1
ExitPayloadError    == 2
ExitRequestError    == 3
ExitBadRequest      == 40
ExitUnauthorized    == 41
ExitForbidden       == 43
ExitPayloadTooLarge == 13
ExitRateLimited     == 29
ExitServerError     == 50
ExitUnknownStatus   == 99

\* os.Exit(2) of flag.Parse (flag.CommandLine is a flag.ExitOnError set).
ExitFlagParse == 2

\* os.Exit(code), or main returning: the process ends.  status is the
\* listener's answer, 0 when no answer was received.
Exit(code, status, at) ==
    cli' = [st |-> "exit", code |-> code, status |-> status, at |-> at]

\* flag.Parse, -help, -version, and the number of arguments.
NotifyParse ==
    /\ cli.st = "none"
    /\ \E parse \in {"ok", "undefined flag", "-h"}, showHelp \in BOOLEAN,
          showVersion \in BOOLEAN, nArg \in 0..2 :
          IF parse = "undefined flag" THEN Exit(ExitFlagParse, 0, "flag.Parse")
          ELSE IF parse = "-h" THEN Exit(0, 0, "flag.Parse")
          ELSE IF showHelp THEN Exit(0, 0, "help")
          ELSE IF showVersion THEN Exit(0, 0, "version")
          ELSE IF nArg # 1 THEN Exit(ExitConfigError, 0, "usage")
          ELSE cli' = [st |-> "parsed"]
    /\ UNCHANGED <<now, maps, config, last, ghosts, server, mu, gor, jobs, sig>>

NotifyURLs == {"", "http://127.0.0.1:7999/deploy"}
NotifySecretFiles == {"", "/run/secrets/dchook"}
NotifyAlgorithms == {"", "sha256", "sha512", "md5"}

\* The URL, the secret file and the algorithm, each from its flag or its
\* environment variable.
NotifyConfigure ==
    /\ cli.st = "parsed"
    /\ \E u \in NotifyURLs, envU \in NotifyURLs, f \in NotifySecretFiles,
          envF \in NotifySecretFiles, readable \in BOOLEAN,
          a \in NotifyAlgorithms, envA \in NotifyAlgorithms :
          LET algo == IF FlagValue(a, envA).err THEN "sha256" ELSE FlagValue(a, envA).value
          IN  IF FlagValue(u, envU).err THEN Exit(ExitConfigError, 0, "url")
              ELSE IF FlagValue(f, envF).err THEN Exit(ExitConfigError, 0, "secret file")
              ELSE IF ~readable THEN Exit(ExitConfigError, 0, "secret file")
              ELSE IF algo # "sha256" /\ algo # "sha384" /\ algo # "sha512"
                THEN Exit(ExitConfigError, 0, "algorithm")
              ELSE cli' = [st |-> "configured", algo |-> algo]
    /\ UNCHANGED <<now, maps, config, last, ghosts, server, mu, gor, jobs, sig>>

\* The payload read from stdin or from the file: what goes wrong on the
\* way (nothing, os.Stat, os.Open, io.ReadAll, more than MaxPayloadSize).
PayloadFaults == {"none", "stat", "open", "read", "large"}
PayloadData == {<< >>, <<65>>, <<9, 65, 10>>, <<0>>, <<255, 254>>, <<240, 159, 154, 128>>}

\* The payload: read, bounded by MaxPayloadSize, and JSON or printable text.
NotifyPayload ==
    /\ cli.st = "configured"
    /\ \E bodyFile \in {"-", "payload.json"}, fault \in PayloadFaults,
          payloadBody \in PayloadData, isJSON \in BOOLEAN :
          IF fault \in {"stat", "open"} /\ bodyFile # "-" THEN Exit(ExitPayloadError, 0, fault)
          ELSE IF fault \in {"read", "large"} THEN Exit(ExitPayloadError, 0, fault)
          ELSE IF ~isJSON /\ ~IsPrintableUTF8(payloadBody)
            THEN Exit(ExitPayloadError, 0, "format")
          ELSE cli' = [st |-> "signed", algo |-> cli.algo, payload |-> payloadBody,
                       text |-> ~isJSON]
    /\ UNCHANGED <<now, maps, config, last, ghosts, server, mu, gor, jobs, sig>>

\* The status codes a listener, or a proxy in front of it, answers with.
ResponseStatuses == {200, 202, 204, 301, 400, 401, 403, 404, 405, 413, 429, 500, 502, 503}

\* http.NewRequest and client.Do.
NotifySend ==
    /\ cli.st = "signed"
    /\ \E fault \in {"none", "NewRequest", "Do"}, status \in ResponseStatuses :
          IF fault # "none" THEN Exit(ExitRequestError, 0, fault)
          ELSE cli' = [st |-> "answered", algo |-> cli.algo, payload |-> cli.payload,
                       text |-> cli.text, status |-> status]
    /\ UNCHANGED <<now, maps, config, last, ghosts, server, mu, gor, jobs, sig>>

ExitCode_AlwaysOne(status) ==
    IF status = StatusAccepted THEN ExitSuccess ELSE 1

\* The exit code for the listener's answer; main returns on 202.
ExitCode(status) ==
    IF status = StatusAccepted THEN ExitSuccess
    ELSE CASE status = 400 -> ExitBadRequest
           [] status = 401 -> ExitUnauthorized
           [] status = 403 -> ExitForbidden
           [] status = 413 -> ExitPayloadTooLarge
           [] status = 429 -> ExitRateLimited
           [] status = 500 -> ExitServerError
           [] OTHER -> ExitUnknownStatus

NotifyExit ==
    /\ cli.st = "answered"
    /\ Exit(ExitCode(cli.status), cli.status, "response")
    /\ UNCHANGED <<now, maps, config, last, ghosts, server, mu, gor, jobs, sig>>

NextNotify ==
    \/ NotifyParse
    \/ NotifyConfigure
    \/ NotifyPayload
    \/ NotifySend
    \/ NotifyExit

SpecNotify == InitDeploy /\ [][NextNotify]_vars

(***************************************************************************)
(* The size of the envelope.  dchook-notify bounds the payload it reads by *)
(* MaxPayloadSize, json.Marshal writes the payload into the envelope, and  *)
(* the listener reads the body through http.MaxBytesReader(maxBodySize).   *)
(* A payload of a MiB is not enumerated byte by byte: it is a sequence of  *)
(* runs, each one rune repeated.                                           *)
(***************************************************************************)
MaxPayloadSize == 1048576
MaxRequestBodySize == MaxPayloadSize + 256
maxBodySize == MaxRequestBodySize

MaxRuns == 3

\* NUL, line feed, the quotation mark, "<", "A" and U+2028.
PayloadRunes == {0, 10, 34, 60, 65, 8232}
RunLengths == {1, 300, MaxPayloadSize - 300, MaxPayloadSize}
RECURSIVE RunSeqs(_)
RunSeqs(k) ==
    IF k = 0 THEN {<< >>}
    ELSE RunSeqs(k - 1)
           \cup {Append(p, run) : p \in {q \in RunSeqs(k - 1) : Len(q) = k - 1},
                                 run \in [r : PayloadRunes, n : RunLengths]}

\* utf8.EncodeRune
EncodeRune(r) ==
    IF r < 128 THEN <<r>>
    ELSE IF r < 2048 THEN <<192 + (r \div 64), 128 + (r % 64)>>
    ELSE IF r < 65536
      THEN <<224 + (r \div 4096), 128 + ((r \div 64) % 64), 128 + (r % 64)>>
    ELSE <<240 + (r \div 262144), 128 + ((r \div 4096) % 64), 128 + ((r \div 64) % 64),
           128 + (r % 64)>>

\* The bytes json.Marshal writes for one rune of a string: two for the
\* quotation mark, the backslash, \n, \r and \t, six (\u and four digits)
\* for the other controls, for "<", ">" and "&" (Marshal escapes for HTML)
\* and for U+2028 and U+2029, and the rune's UTF-8 otherwise.
EscapedLen(r) ==
    IF r \in {34, 92, 9, 10, 13} THEN 2
    ELSE IF r < 32 \/ r \in {60, 62, 38, 8232, 8233} THEN 6
    ELSE Len(EncodeRune(r))

RECURSIVE RawLen(_)
\* len(payloadBody)
RawLen(p) ==
    IF p = << >> THEN 0
    ELSE p[1].n * Len(EncodeRune(p[1].r)) + RawLen(Tail(p))

RECURSIVE QuotedLen(_)
QuotedLen(p) ==
    IF p = << >> THEN 0
    ELSE p[1].n * EscapedLen(p[1].r) + QuotedLen(Tail(p))

RECURSIVE OneOfEach(_)
\* The payload with each of its runs cut down to one rune.
OneOfEach(p) ==
    IF p = << >> THEN << >> ELSE EncodeRune(p[1].r) \o OneOfEach(Tail(p))

\* json.Unmarshal(payloadBody, &payload) returns no error.  Of the payloads
\* above only the string literals are JSON: a quotation mark, runes that
\* are neither controls nor quotation marks, a quotation mark.
IsJSON(p) ==
    /\ Len(p) >= 2
    /\ p[1] = [r |-> 34, n |-> 1]
    /\ p[Len(p)] = [r |-> 34, n |-> 1]
    /\ \A i \in 2..(Len(p) - 1) : p[i].r >= 32 /\ p[i].r \notin {34, 92}

\* The string that json.Unmarshal decodes from a string literal.
Unquoted(p) == SubSeq(p, 2, Len(p) - 1)

\* len of json.Marshal(payload): the decoded JSON value written again, or
\* the text written as a JSON string.
MarshalLen(p) == 2 + QuotedLen(IF IsJSON(p) THEN Unquoted(p) ELSE p)

\* version and commit of the builds of dchook-notify: the defaults, and a
\* release with a short or a full commit hash.
Builds ==
    {<<"dev", "unknown">>, <<"1.1.0", "a1b2c3d">>,
     <<"1.1.0", "a1b2c3d4e5f60718293a4b5c6d7e8f9012345678">>}

\* len(body) of body, err := json.Marshal(envelope); the keys of a map are
\* written in sorted order, and the timestamp is the sixteen digits of
\* fmt.Sprintf("%d", time.Now().UnixMicro()).
EnvelopeLen(build, p) ==
    Len("{\"dchook\":{\"commit\":\"") + Len(build[2])
      + Len("\",\"timestamp\":\"") + Len("1793547600000000")
      + Len("\",\"version\":\"") + Len(build[1])
      + Len("\"},\"payload\":") + MarshalLen(p) + Len("}")

\* The payload read through io.LimitReader(MaxPayloadSize+1), its length
\* and its format checked.
NotifyRead ==
    /\ cli.st = "none"
    /\ \E p \in RunSeqs(MaxRuns) \ {<< >>} :
          IF RawLen(p) > MaxPayloadSize THEN Exit(ExitPayloadError, 0, "large")
          ELSE IF ~IsJSON(p) /\ ~IsPrintableUTF8(OneOfEach(p))
            THEN Exit(ExitPayloadError, 0, "format")
          ELSE cli' = [st |-> "payload", payloadBody |-> p]
    /\ UNCHANGED <<now, maps, config, last, ghosts, server, mu, gor, jobs, sig>>

\* The envelope is built and marshalled.
NotifyMarshal ==
    /\ cli.st = "payload"
    /\ \E build \in Builds :
          cli' = [st |-> "envelope", payloadBody |-> cli.payloadBody,
                  body |-> EnvelopeLen(build, cli.payloadBody)]
    /\ UNCHANGED <<now, maps, config, last, ghosts, server, mu, gor, jobs, sig>>

\* The handler's io.ReadAll(r.Body) behind http.MaxBytesReader: an error
\* when the body is longer than maxBodySize.
ReadBody ==
    /\ cli.st = "envelope"
    /\ cli' = [st |-> "posted", payloadBody |-> cli.payloadBody, body |-> cli.body,
               err |-> cli.body > maxBodySize]
    /\ UNCHANGED <<now, maps, config, last, ghosts, server, mu, gor, jobs, sig>>

NextEnvelope ==
    \/ NotifyRead
    \/ NotifyMarshal
    \/ ReadBody

SpecEnvelope == InitDeploy /\ [][NextEnvelope]_vars

(***************************************************************************)
(* Properties of the limiter driven directly (specification Spec).         *)
(***************************************************************************)
Entry(m, k) == IF k \in DOMAIN m THEN <<m[k]>> ELSE << >>

NotBanned(ip) == ip \notin DOMAIN bannedUntil

IsBannedStep == last'.k # last.k /\ last'.op = "IsBanned"

\* C1: for an identity that starts with no failures and no ban, IsBanned is
\* false while fewer than failLimit RecordFailure calls were made; once exactly
\* failLimit consecutive RecordFailure calls were made (no accepted
\* RecordSuccess among them) a call of IsBanned made at instant now returns
\* true exactly when now < bannedAt + banDuration, bannedAt being the instant
\* of the failLimit-th failure: true at once and until the expiry, false from
\* the first call at or after the expiry.
C1_BanAfterFailLimit ==
    [][IsBannedStep =>
         LET ip == last'.ip IN
           /\ nFail[ip] < failLimit => last'.ret = FALSE
           /\ (nFail[ip] = failLimit /\ streak[ip] = failLimit)
                => last'.ret = (now < lastFailAt[ip] + banDuration)]_vars

C1_Witness ==
    /\ last.op = "IsBanned" /\ last.ret = FALSE
    /\ failLimit > 1
    /\ nFail[last.ip] = failLimit /\ streak[last.ip] = failLimit
    /\ now >= lastFailAt[last.ip] + banDuration
    /\ NotBanned(last.ip) /\ Get(failedRequests, last.ip, 0) = 0

\* C6: an accepted RecordSuccess leaves the identity's failure counter at
\* zero; an identity whose runs of RecordFailure calls between accepted
\* successes all stayed below failLimit (failLimit-1 failures, an accepted
\* success, failLimit-1 more failures) is not banned and its counter equals
\* the length of the current run.
C6_SuccessResetsFailures ==
    /\ (last.op = "RecordSuccess" /\ last.ret)
          => Get(failedRequests, last.ip, 0) = 0
    /\ \A ip \in IPs :
          (streak[ip] < failLimit /\ nFail[ip] - streak[ip] < failLimit)
             => /\ NotBanned(ip)
                /\ Get(failedRequests, ip, 0) = streak[ip]

C6_Witness ==
    \E ip \in IPs :
      /\ failLimit > 1
      /\ Len(grants[ip]) = 1
      /\ streak[ip] = failLimit - 1
      /\ nFail[ip] = 2 * (failLimit - 1)
      /\ NotBanned(ip)

WouldAccept(ip) == Len(Recent(ip)) < successLimit

\* C7: starting from an empty history, the first successLimit RecordSuccess
\* calls of an identity made within successWindow of the first one return
\* true and the (successLimit+1)-th call inside that window returns false; a
\* call for one identity leaves every other identity's success history,
\* failure counter, ban record and RecordSuccess verdict as they were.
C7_Scenario ==
    \A ip \in IPs : \A i \in 1..Len(tries[ip]) :
       tries[ip][i].at < tries[ip][1].at + successWindow
          => tries[ip][i].ret = (i <= successLimit)

C7_Frame ==
    \A j \in IPs :
       (last'.k # last.k /\ last'.ip # j)
          => /\ Entry(successRequests', j) = Entry(successRequests, j)
             /\ Entry(failedRequests', j) = Entry(failedRequests, j)
             /\ Entry(bannedUntil', j) = Entry(bannedUntil, j)
             /\ WouldAccept(j)' = WouldAccept(j)

C7_SuccessLimitPerIdentity == []C7_Scenario /\ [][C7_Frame]_vars

C7_Witness ==
    \E ip \in IPs :
      /\ successLimit > 1
      /\ Len(tries[ip]) = successLimit + 1
      /\ tries[ip][successLimit + 1].at < tries[ip][1].at + successWindow
      /\ tries[ip][successLimit + 1].ret = FALSE
      /\ last.op = "RecordSuccess" /\ last.ip # ip /\ last.ret

\* C8: the stored success history of an identity never has more than
\* successLimit entries, and no half-open interval of length successWindow
\* contains more than successLimit accepted RecordSuccess calls of one
\* identity.
C8_SlidingWindowLimit ==
    \A ip \in IPs :
      /\ Len(Get(successRequests, ip, << >>)) <= successLimit
      /\ \A i \in 1..Len(grants[ip]) :
            Cardinality({j \in 1..Len(grants[ip]) :
                            /\ grants[ip][i] <= grants[ip][j]
                            /\ grants[ip][j] < grants[ip][i] + successWindow})
               <= successLimit

C8_Witness ==
    /\ last.op = "RecordSuccess" /\ last.ret = FALSE
    /\ Len(grants[last.ip]) > successLimit
    /\ Len(successRequests[last.ip]) = successLimit

(***************************************************************************)
(* Properties of the replay guard driven directly (SpecReplay).            *)
(***************************************************************************)
CheckReplayStep == last'.k # last.k /\ last'.op = "CheckReplay"

Range(q) == {q[i] : i \in DOMAIN q}

BanInForce(ip) == ip \in DOMAIN bannedUntil /\ now < bannedUntil[ip]

\* The step answers the request it has just received.
AnsweredOnArrival == started' # started /\ pc' = pc

\* The step receives a POST from ip.
ArrivalFrom(ip) ==
    /\ started' # started
    /\ \/ pc' = pc /\ served'.ip = ip /\ served'.step # "method"
       \/ \E h \in Handlers : pc'[h] # pc[h] /\ hip'[h] = ip

\* Handler h writes its response in this step, after the ban check.
Answers(h) == pc[h] # "idle" /\ pc'[h] = "idle"

\* C2: a POST that arrives from an identity whose ban is in force is answered
\* 403 Forbidden on the ban check alone, whatever the request is, and the four
\* maps of the limiter are left as they were.
C2_BannedIsForbiddenNoEffect ==
    [][\A ip \in IPs :
          (ArrivalFrom(ip) /\ BanInForce(ip))
             => /\ AnsweredOnArrival
                /\ served'.status = 403
                /\ served'.calls = << <<"IsBanned", TRUE>> >>
                /\ UNCHANGED maps]_vars

C2_Witness ==
    /\ served.status = 403
    /\ served.req = [defect |-> "valid", ts |-> 0]
    /\ 0 \notin DOMAIN seenTimestamps
    /\ Get(failedRequests, served.ip, 0) = 2
    /\ served.ip \notin DOMAIN successRequests

C3_ThrottledLog ==
    served.status = 429
       => served.calls = << <<"IsBanned", FALSE>>, <<"CheckReplay", TRUE>>,
                            <<"RecordSuccess", FALSE>> >>

C3_ThrottleStep ==
    \A h \in Handlers :
       (Answers(h) /\ served'.status = 429)
          => UNCHANGED <<failedRequests, bannedUntil>>

C3_OnlyFailuresCount ==
    \A ip \in IPs :
       (\/ Get(failedRequests', ip, 0) > Get(failedRequests, ip, 0)
        \/ Get(bannedUntil', ip, 0 - 1) > Get(bannedUntil, ip, 0 - 1))
          => /\ \E h \in Handlers : Answers(h) /\ hip[h] = ip
             /\ <<"RecordFailure", TRUE>> \in Range(served'.calls)
             /\ served'.status \in {400, 401}

\* C3: a request answered 429 Too Many Requests made exactly the calls
\* IsBanned, CheckReplay, RecordSuccess and no RecordFailure; the step that
\* answers 429 leaves the failure counters and the ban records as they were;
\* a failure counter grows and a ban is set or extended only in the step of a
\* request that is answered 400 or 401 after its RecordFailure.
C3_ThrottleNeverCounts ==
    []C3_ThrottledLog /\ [][C3_ThrottleStep /\ C3_OnlyFailuresCount]_vars

C3_Witness ==
    /\ served.status = 429
    /\ started = 3
    /\ Get(failedRequests, served.ip, 0) = 0
    /\ served.ip \notin DOMAIN bannedUntil
    /\ Cardinality(DOMAIN seenTimestamps) = 2

CountedChecks == {"signature", "decode", "timestamp", "replay", "version"}

C4_OneCall ==
    served.step \in CountedChecks
       => Cardinality({i \in DOMAIN served.calls :
                          served.calls[i][1] = "RecordFailure"}) = 1

C4_OneIncrement ==
    \A h \in Handlers :
       (Answers(h) /\ served'.step \in CountedChecks)
          => Get(failedRequests', hip[h], 0) = Get(failedRequests, hip[h], 0) + 1

\* C4: a request rejected at signature verification, envelope decode,
\* timestamp parse, replay check or compatibility check made exactly one
\* RecordFailure call, and the step that answers it raises the identity's
\* failure counter by exactly one.
C4_RejectionCountsOnce == []C4_OneCall /\ [][C4_OneIncrement]_vars

C4_Witness ==
    /\ served.step = "replay"
    /\ served.req = [defect |-> "valid", ts |-> 0]
    /\ Get(failedRequests, served.ip, 0) = 1
    /\ Get(deploys, served.req, 0) = 1

\* The first step of the pipeline order that rejects the request answered;
\* the verdicts of the ban, replay and success-rate checks are those logged.
FirstFailing(resp) ==
    IF <<"IsBanned", TRUE>> \in Range(resp.calls) THEN "ban"
    ELSE IF Fails(resp.req, "signature") THEN "signature"
    ELSE IF Fails(resp.req, "decode") THEN "decode"
    ELSE IF Fails(resp.req, "timestamp") THEN "timestamp"
    ELSE IF <<"CheckReplay", FALSE>> \in Range(resp.calls) THEN "replay"
    ELSE IF Fails(resp.req, "version") THEN "version"
    ELSE IF <<"RecordSuccess", FALSE>> \in Range(resp.calls) THEN "rate"
    ELSE "accept"

ExpectedCalls(step) ==
    CASE step = "ban" -> << <<"IsBanned", TRUE>> >>
      [] step \in {"signature", "decode", "timestamp"} ->
           << <<"IsBanned", FALSE>>, <<"RecordFailure", TRUE>> >>
      [] step = "replay" ->
           << <<"IsBanned", FALSE>>, <<"CheckReplay", FALSE>>, <<"RecordFailure", TRUE>> >>
      [] step = "version" ->
           << <<"IsBanned", FALSE>>, <<"CheckReplay", TRUE>>, <<"RecordFailure", TRUE>> >>
      [] step = "rate" ->
           << <<"IsBanned", FALSE>>, <<"CheckReplay", TRUE>>, <<"RecordSuccess", FALSE>> >>
      [] step = "accept" ->
           << <<"IsBanned", FALSE>>, <<"CheckReplay", TRUE>>, <<"RecordSuccess", TRUE>> >>

ExpectedStatus(step) ==
    CASE step = "ban" -> 403
      [] step = "signature" -> 401
      [] step \in {"decode", "timestamp", "replay", "version"} -> 400
      [] step = "rate" -> 429
      [] step = "accept" -> 202

C5_Answered ==
    (served # NoResponse /\ ~Fails(served.req, "body"))
       => /\ served.step = FirstFailing(served)
          /\ served.calls = ExpectedCalls(served.step)
          /\ served.status = ExpectedStatus(served.step)
          /\ served.step = "accept" => served.req \in DOMAIN deploys

C5_NotPastBodyRead ==
    (served # NoResponse /\ Fails(served.req, "body"))
       => /\ served.calls \in { << >>, << <<"IsBanned", TRUE>> >>,
                                << <<"IsBanned", FALSE>>, <<"RecordFailure", TRUE>> >> }
          /\ served.req \notin DOMAIN deploys

C5_InFlight ==
    \A h \in Handlers :
       /\ pc[h] = "read" => calls[h] = << <<"IsBanned", FALSE>> >>
       /\ pc[h] = "replayed"
            => /\ calls[h] = << <<"IsBanned", FALSE>>, <<"CheckReplay", FALSE>> >>
               /\ ~Fails(hreq[h], "timestamp")
       /\ pc[h] = "compat"
            => /\ calls[h] = << <<"IsBanned", FALSE>>, <<"CheckReplay", TRUE>> >>
               /\ ~Fails(hreq[h], "timestamp")

C5_DeployOnlyOnAccept ==
    deploys' # deploys
       => /\ \E h \in Handlers : Answers(h) /\ hreq[h] = served'.req
          /\ served'.step = "accept" /\ served'.status = 202
          /\ ~Fails(served'.req, "version")
          /\ deploys' = Put(deploys, served'.req, Get(deploys, served'.req, 0) + 1)

\* C5: a POST whose body was read is answered by the first step that rejects
\* it in the order ban check, signature verification, envelope decode,
\* timestamp parse, replay check, compatibility check, success-rate check,
\* with that step's status; the limiter calls made for it are exactly those
\* of the steps up to the rejecting one (nothing of a later step happens); a
\* request rejected earlier, at the method check or the body read, reaches
\* neither CheckReplay nor RecordSuccess; a deploy is started only in the
\* step that answers 202 after every step passed.
C5_FirstFailingStepDecides ==
    [](C5_Answered /\ C5_NotPastBodyRead /\ C5_InFlight)
       /\ [][C5_DeployOnlyOnAccept]_vars

C5_Witness ==
    /\ served.req.defect = "signature"
    /\ served.status = 401
    /\ served.calls = << <<"IsBanned", FALSE>>, <<"RecordFailure", TRUE>> >>
    /\ Cardinality(DOMAIN deploys) = 1
    /\ \E h \in Handlers : pc[h] = "replayed" /\ Fails(hreq[h], "version")

ReadmeTolerance == 5

Unseen(ts) == ts \notin DOMAIN seenTimestamps

C11_Window ==
    CheckReplayStep
       => LET ts == last'.ts IN
          /\ (Unseen(ts) /\ now - ReplayPast <= ts /\ ts <= now + ReplayFuture)
                => last'.ret = TRUE
          /\ (now + ReplayFuture < ts /\ ts <= now + ReadmeTolerance)
                => last'.ret = FALSE

C11_Tracked ==
    \A ts \in DOMAIN accepts :
       now - accepts[ts][Len(accepts[ts])] <= replayWindow
          => /\ ts \in DOMAIN seenTimestamps
             /\ seenTimestamps[ts] = accepts[ts][Len(accepts[ts])]

RequestFrom(ip) ==
    /\ started' # started
    /\ \/ pc' = pc /\ served'.ip = ip
       \/ \E h \in Handlers : pc'[h] # pc[h] /\ hip'[h] = ip

C12_BanSet ==
    \A ip \in IPs :
       (/\ Get(failedRequests', ip, 0) > Get(failedRequests, ip, 0)
        /\ Get(failedRequests', ip, 0) >= 2)
          => /\ ip \in DOMAIN bannedUntil'
             /\ bannedUntil'[ip] = now + 60

C12_BanKept ==
    \A ip \in IPs :
       (ip \in DOMAIN bannedUntil /\ now' < bannedUntil[ip])
          => /\ ip \in DOMAIN bannedUntil'
             /\ bannedUntil'[ip] >= bannedUntil[ip]

C12_BannedRequest ==
    \A ip \in IPs :
       (RequestFrom(ip) /\ BanInForce(ip))
          => /\ AnsweredOnArrival
             /\ served'.step \in {"ban", "method"} \cup OpenPaths
             /\ served'.step = "ban" => served'.status = 403
             /\ served'.step = "method" => served'.status = 405
             /\ served'.step \in OpenPaths => served'.status = 200
             /\ UNCHANGED maps

ExpiredBan(ip) == ip \in DOMAIN bannedUntil /\ now >= bannedUntil[ip]

LimiterStep(op) == last'.k # last.k /\ last'.op = op

\* C13: IsBanned returns true only while now is before the expiry; and a call
\* of IsBanned, RecordFailure or RecordSuccess for an identity whose ban has
\* expired clears the ban record and the failure counter before it acts:
\* IsBanned leaves neither, RecordFailure counts its failure as the first one,
\* RecordSuccess leaves no ban record and no failure counter.
C13_ExpiredBanClearedOnAccess ==
    [][LET ip == last'.ip IN
       /\ (LimiterStep("IsBanned") /\ last'.ret)
             => ip \in DOMAIN bannedUntil /\ now < bannedUntil[ip]
       /\ (LimiterStep("IsBanned") /\ ExpiredBan(ip))
             => ip \notin DOMAIN bannedUntil' /\ ip \notin DOMAIN failedRequests'
       /\ (LimiterStep("RecordFailure") /\ ExpiredBan(ip))
             => /\ Get(failedRequests', ip, 0) = 1
                /\ (ip \in DOMAIN bannedUntil') = (failLimit <= 1)
       /\ (LimiterStep("RecordSuccess") /\ ExpiredBan(ip))
             => ip \notin DOMAIN bannedUntil' /\ ip \notin DOMAIN failedRequests'
      ]_vars

(***************************************************************************)
(* Concurrent calls of the limiter (SpecLocked).                           *)
(***************************************************************************)
InCriticalSection == {g \in Handlers : gor[g].st \in {"locked", "loaded"}}

Returned(g, op) == gor[g].st = "done" /\ gor[g].op = op

C14_MutualExclusion ==
    /\ Cardinality(InCriticalSection) <= 1
    /\ mu = (InCriticalSection # {})

C14_OneAcceptPerTimestamp ==
    \A ts \in LockedTimestamps :
       /\ Len(Get(accepts, ts, << >>)) <= 1
       /\ (\E g \in Handlers : Returned(g, "CheckReplay") /\ gor[g].ts = ts)
             => Len(Get(accepts, ts, << >>)) = 1

C14_SuccessLimitKept ==
    \A ip \in IPs : \A i \in 1..Len(grants[ip]) :
       Cardinality({j \in 1..Len(grants[ip]) :
                       /\ grants[ip][i] <= grants[ip][j]
                       /\ grants[ip][j] < grants[ip][i] + successWindow})
          <= successLimit

C14_NoLostIncrement ==
    \A ip \in IPs : Get(failedRequests, ip, 0) = streak[ip]

\* A method that returns in this step, having read the clock at this instant,
\* changes the maps and returns exactly as the method run in one step does.
C14_AtomicMethod ==
    \A g \in Handlers :
       (gor[g].st = "loaded" /\ gor'[g].st = "done" /\ gor[g].at = now)
          => LET c == gor'[g] IN
             CASE c.op = "IsBanned" -> IsBanned(c.ip, c.ret)
               [] c.op = "CheckReplay" -> CheckReplay(c.ts, c.ret)
               [] c.op = "RecordSuccess" -> RecordSuccess(c.ip, c.ret)
               [] c.op = "RecordFailure" -> RecordFailure(c.ip)

\* C14: with the methods of the limiter called by concurrent goroutines, at
\* most one goroutine is between Lock and Unlock; every method changes the
\* four maps and returns as if run in one step; of the CheckReplay calls with
\* one timestamp exactly one returns true; the RecordSuccess calls of one
\* identity that return true within one window never exceed successLimit;
\* the failure counter equals the number of RecordFailure calls returned since
\* the identity's last accepted RecordSuccess (no increment is lost).
C14_AtomicUnderOneLock ==
    [](/\ C14_MutualExclusion
       /\ C14_OneAcceptPerTimestamp
       /\ C14_SuccessLimitKept
       /\ C14_NoLostIncrement)
       /\ [][C14_AtomicMethod]_vars

C14_Witness ==
    \E g1, g2 \in Handlers :
       /\ g1 # g2
       /\ Returned(g1, "CheckReplay") /\ gor[g1].ret
       /\ gor[g2].st = "loaded" /\ gor[g2].op = "CheckReplay"
       /\ gor[g2].ts = gor[g1].ts /\ gor[g2].seen
       /\ \E ip \in IPs : streak[ip] = 2 /\ Get(failedRequests, ip, 0) = 2

(***************************************************************************)
(* The deploy goroutines (SpecAsync).                                      *)
(***************************************************************************)
Running(j) == jobs[j].st \in {"pull", "up"}

\* C15: for every accepted request the 202 response is written before its
\* deploy starts (and so before it completes or fails): a deploy that has left
\* the state in which the go statement put it belongs to a request already
\* answered; and the response written for an accepted request is 202 whatever
\* becomes of the deploy.
C15_ResponseBeforeDeployStarts ==
    /\ \A j \in DOMAIN jobs : jobs[j].st # "spawned" => jobs[j].answered
    /\ served.step = "accept" => served.status = 202

\* A step that is not the deploy goroutine's own leaves a deploy as it is,
\* apart from marking its request answered; nothing removes a deploy.
C16_NoCancel ==
    /\ Len(jobs') >= Len(jobs)
    /\ \A j \in DOMAIN jobs :
          jobs'[j].st # jobs[j].st
             => /\ UNCHANGED <<maps, server>>
                /\ \/ jobs[j].st = "spawned" /\ jobs'[j].st = "pull"
                   \/ jobs[j].st = "pull" /\ jobs'[j].st \in {"up", "failed"}
                   \/ jobs[j].st = "up" /\ jobs'[j].st \in {"complete", "failed"}

\* A handler that has passed the replay check can take its next step, and a
\* handler that has started its deploy can write its response, whatever
\* deploys are running.
C16_NoWait ==
    \A h \in Handlers :
       /\ pc[h] = "compat" => ENABLED Trigger(h)
       /\ pc[h] = "spawned" => ENABLED WriteAccepted(h)

\* A deploy is started for an accepted request whatever deploys are running.
C16_StartsWhileRunning ==
    \A h \in Handlers :
       (pc[h] = "compat" /\ pc'[h] = "spawned")
          => /\ Len(jobs') = Len(jobs) + 1
             /\ \A j \in DOMAIN jobs : jobs'[j] = jobs[j]

\* C16: the deploys of accepted requests are not serialized: the pipeline never
\* waits for a running deploy, starting a deploy leaves the running ones
\* running, and no step other than a deploy's own changes its progress; so
\* two deploys are in progress at the same time (the witness).
C16_DeploysNotSerialized ==
    []C16_NoWait /\ [][C16_NoCancel /\ C16_StartsWhileRunning]_vars

C16_Witness ==
    \E i, j \in DOMAIN jobs :
       /\ i # j
       /\ Running(i) /\ Running(j)
       /\ jobs[i].answered /\ jobs[j].answered
       /\ served.step = "accept"
       /\ \E ip1, ip2 \in DOMAIN successRequests : ip1 # ip2

(***************************************************************************)
(* Signatures and the allowed algorithms (SpecSignature).                  *)
(***************************************************************************)
Verified == sig.op \in {"VerifySignature", "HandlerVerify"}

\* C17: a signature generated over the payload with the secret and a
\* supported algorithm that the allowed set holds verifies, for every payload
\* and secret, the empty ones included.
C17_RoundTrip ==
    Verified
       => \A a \in Supported :
             (/\ Get(sig.allowed, a, FALSE)
              /\ sig.signature = GenerateSignature(sig.payload, sig.secret, a))
                => sig.ret = TRUE

C17_Witness ==
    /\ sig.op = "VerifySignature"
    /\ sig.payload = "" /\ sig.secret = ""
    /\ sig.signature = GenerateSignature("", "", "sha384")
    /\ sig.allowed = [a \in Supported |-> TRUE]
    /\ sig.ret

\* C18: a signature generated over another payload, or with another secret,
\* does not verify, whichever supported algorithm generated it.
C18_TamperRejected ==
    Verified
       => \A p \in Payloads, k \in Secrets, a \in Supported :
             (/\ sig.signature = GenerateSignature(p, k, a)
              /\ (p # sig.payload \/ k # sig.secret))
                => sig.ret = FALSE

C18_Witness ==
    /\ sig.op = "VerifySignature"
    /\ sig.signature = GenerateSignature("a", "a", "sha512")
    /\ sig.payload = "b" /\ sig.secret = "a"
    /\ sig.allowed = [a \in Supported |-> TRUE]
    /\ ~sig.ret

AlgorithmPart(signature) == SubSeq(signature, 1, Index(signature, ":") - 1)

\* C19: GenerateSignature returns "" for every algorithm name other than
\* sha256, sha384, sha512; VerifySignature returns false for a signature with
\* no colon, one whose algorithm part the allowed set does not hold, and one
\* whose algorithm part GenerateSignature does not support, whatever follows
\* the colon.
C19_UnsupportedRejected ==
    /\ (sig.op = "GenerateSignature" /\ sig.algorithm \notin {"sha256", "sha384", "sha512"})
          => sig.signature = ""
    /\ Verified
          => ((\/ Index(sig.signature, ":") = 0
               \/ ~Get(sig.allowed, AlgorithmPart(sig.signature), FALSE)
               \/ AlgorithmPart(sig.signature) \notin {"sha256", "sha384", "sha512"})
                 => sig.ret = FALSE)

C19_Witness ==
    /\ sig.op = "VerifySignature"
    /\ sig.signature = GenerateSignature("ab", "b", "sha512")
    /\ sig.payload = "ab" /\ sig.secret = "b"
    /\ sig.allowed = [a \in {"sha256"} |-> TRUE]
    /\ ~sig.ret

\* The algorithms DCHOOK_ALLOWED_ALGORITHMS names.
Named(env) == DOMAIN ParseAlgorithms(env).allowed

\* C20: when DCHOOK_ALLOWED_ALGORITHMS names a proper subset of the supported
\* algorithms and --algorithms is not given, the handler rejects every
\* signature whose algorithm is outside that subset; a value given with
\* --algorithms decides the allowed set whatever the variable holds.
C20_EnvironmentRestricts ==
    /\ (/\ sig.op = "HandlerVerify"
        /\ ~cli.cmd.given
        /\ cli.env # ""
        /\ ~ParseAlgorithms(cli.env).fatal
        /\ Named(cli.env) # Supported
        /\ AlgorithmPart(sig.signature) \notin Named(cli.env))
          => sig.ret = FALSE
    /\ (cli.st # "none" /\ cli.cmd.given /\ cli.cmd.value # "")
          => cli.allowed = ParseAlgorithms(cli.cmd.value).allowed

(***************************************************************************)
(* C29.  A RecordSuccess call that returns false (the pruned history is    *)
(* already at or above successLimit) mutates nothing: the stored success   *)
(* history, entries that have aged out of the window included, the         *)
(* identity's failure counter and its ban record are as before the call.   *)
(***************************************************************************)
C29_RejectedSuccessMutatesNothing ==
    [][(LimiterStep("RecordSuccess") /\ ~last'.ret)
          => /\ Len(Recent(last'.ip)) >= successLimit
             /\ successRequests' = successRequests
             /\ failedRequests' = failedRequests
             /\ bannedUntil' = bannedUntil
             /\ seenTimestamps' = seenTimestamps]_vars

C29_Witness ==
    /\ last.op = "RecordSuccess"
    /\ ~last.ret
    /\ Get(failedRequests, last.ip, 0) > 0
    /\ last.ip \in DOMAIN bannedUntil
    /\ Len(Get(successRequests, last.ip, << >>)) = successLimit

\* At a rejected call every entry of the stored history is within the window.
C29_NothingAgedAtRejection ==
    [][(LimiterStep("RecordSuccess") /\ ~last'.ret)
          => Recent(last'.ip) = Get(successRequests, last'.ip, << >>)]_vars

\* The timestamps of the seen-set first observed no earlier than the
\* retention window before now.
Fresh == {t \in DOMAIN seenTimestamps : seenTimestamps[t] >= now - replayWindow}

(***************************************************************************)
(* C30.  The effect of CheckReplay on the seen-timestamp set: a call that  *)
(* returns false leaves the set unchanged; a call that returns true at     *)
(* time now leaves the previous entries whose first-observed instant is    *)
(* not older than now minus the retention window, plus the presented       *)
(* timestamp mapped to now, so that right after an accepted call no entry  *)
(* is older than the retention window.                                     *)
(***************************************************************************)
C30_SeenSetEffect ==
    [][CheckReplayStep =>
         /\ ~last'.ret => seenTimestamps' = seenTimestamps
         /\ last'.ret =>
              /\ DOMAIN seenTimestamps' = Fresh \cup {last'.ts}
              /\ \A t \in Fresh \ {last'.ts} : seenTimestamps'[t] = seenTimestamps[t]
              /\ seenTimestamps'[last'.ts] = now
              /\ \A t \in DOMAIN seenTimestamps' :
                    seenTimestamps'[t] >= now - replayWindow]_vars

C30_Witness ==
    /\ last.op = "CheckReplay"
    /\ last.ret
    /\ seenTimestamps[last.ts] = now
    /\ replayWindow > 0
    /\ \E t \in DOMAIN accepts : t \notin DOMAIN seenTimestamps
    /\ \E t \in DOMAIN seenTimestamps : seenTimestamps[t] = now - replayWindow

(***************************************************************************)
(* Properties of the helpers called once each (specification SpecUtil).    *)
(***************************************************************************)
\* The segments of a version: one leading "v" stripped, then split on ".".
Segments(v) == Split(TrimPrefix(v, "v"), ".")

\* The version has a major and a minor segment and both are integers.
Numbered(v) ==
    /\ Len(Segments(v)) >= 2
    /\ ~Atoi(Segments(v)[1]).err
    /\ ~Atoi(Segments(v)[2]).err

SameLine(cv, sv) ==
    /\ Atoi(Segments(cv)[1]).n = Atoi(Segments(sv)[1]).n
    /\ Atoi(Segments(cv)[2]).n = Atoi(Segments(sv)[2]).n

(***************************************************************************)
(* C21.  IsVersionCompatible returns true whenever either version is       *)
(* "dev", whatever the other arguments are; otherwise it returns false     *)
(* when a side, stripped of one leading "v" and split on ".", has fewer    *)
(* than two segments or a major or minor segment that is not an integer,   *)
(* and false when the numeric major or minor differ between the sides.     *)
(***************************************************************************)
C21_DevOrSameLine ==
    sig.op = "IsVersionCompatible" =>
       LET cv == sig.clientVer
           sv == sig.serverVer
       IN  /\ (cv = "dev" \/ sv = "dev") => sig.ret
           /\ (cv # "dev" /\ sv # "dev" /\ (~Numbered(cv) \/ ~Numbered(sv))) => ~sig.ret
           /\ (cv # "dev" /\ sv # "dev" /\ Numbered(cv) /\ Numbered(sv) /\ ~SameLine(cv, sv))
                 => ~sig.ret

C21_Witness ==
    /\ sig.op = "IsVersionCompatible"
    /\ sig.clientVer = "v1.0.0"
    /\ sig.serverVer = "v1.1.0"
    /\ sig.clientCommit = sig.serverCommit
    /\ ~sig.ret

(***************************************************************************)
(* C22.  When neither version is "dev" and major and minor match,          *)
(* IsVersionCompatible requires equal commits if and only if the two       *)
(* unstripped version strings are textually identical, and otherwise       *)
(* returns true whatever the commits are: "1.0.0" against "v1.0.0" with    *)
(* different commits is compatible, "v1.0.0" against "v1.0.0" with         *)
(* different commits is not.                                               *)
(***************************************************************************)
C22_CommitOnlyOnIdenticalText ==
    sig.op = "IsVersionCompatible" =>
       LET cv == sig.clientVer
           sv == sig.serverVer
       IN  /\ (cv # "dev" /\ sv # "dev" /\ Numbered(cv) /\ Numbered(sv) /\ SameLine(cv, sv))
                 => (sig.ret <=> (cv = sv => sig.clientCommit = sig.serverCommit))
           /\ (cv = "1.0.0" /\ sv = "v1.0.0") => sig.ret
           /\ (cv = "v1.0.0" /\ sv = "v1.0.0" /\ sig.clientCommit # sig.serverCommit)
                 => ~sig.ret

C22_Witness ==
    /\ sig.op = "IsVersionCompatible"
    /\ sig.clientVer = "1.0.0"
    /\ sig.serverVer = "v1.0.0"
    /\ sig.clientCommit # sig.serverCommit
    /\ sig.ret

\* A well-formed UTF-8 byte sequence of one code point (Unicode, table 3-7).
WellFormed(b) ==
    LET In(i, lo, hi) == b[i] >= lo /\ b[i] <= hi IN
    CASE Len(b) = 1 -> In(1, 0, 127)
      [] Len(b) = 2 -> In(1, 194, 223) /\ In(2, 128, 191)
      [] Len(b) = 3 ->
           /\ \/ b[1] = 224 /\ In(2, 160, 191)
              \/ In(1, 225, 236) /\ In(2, 128, 191)
              \/ b[1] = 237 /\ In(2, 128, 159)
              \/ In(1, 238, 239) /\ In(2, 128, 191)
           /\ In(3, 128, 191)
      [] Len(b) = 4 ->
           /\ \/ b[1] = 240 /\ In(2, 144, 191)
              \/ In(1, 241, 243) /\ In(2, 128, 191)
              \/ b[1] = 244 /\ In(2, 128, 143)
           /\ In(3, 128, 191)
           /\ In(4, 128, 191)
      [] OTHER -> FALSE

\* The code point a well-formed sequence encodes.
CodePoint(b) ==
    CASE Len(b) = 1 -> b[1]
      [] Len(b) = 2 -> (b[1] % 32) * 64 + (b[2] % 64)
      [] Len(b) = 3 -> (b[1] % 16) * 4096 + (b[2] % 64) * 64 + (b[3] % 64)
      [] Len(b) = 4 ->
           (b[1] % 8) * 262144 + (b[2] % 64) * 4096 + (b[3] % 64) * 64 + (b[4] % 64)

\* The lengths of the well-formed sequences the data starts with (at most one).
Heads(data) == {n \in 1..4 : n <= Len(data) /\ WellFormed(SubSeq(data, 1, n))}

Printable(cp) ==
    /\ cp # 65533
    /\ ~(cp < 32 /\ cp \notin {9, 10, 13})
    /\ cp # 127

\* The data is UTF-8 with no invalid byte sequence, of printable code points.
RECURSIVE PrintableText(_)
PrintableText(data) ==
    \/ Len(data) = 0
    \/ \E n \in Heads(data) :
          /\ Printable(CodePoint(SubSeq(data, 1, n)))
          /\ PrintableText(SubSeq(data, n + 1, Len(data)))

(***************************************************************************)
(* C26.  IsPrintableUTF8(data) is true exactly when data is UTF-8 with no  *)
(* invalid byte sequence and holds no code point that is U+FFFD, a control *)
(* character below 0x20 other than tab, newline and carriage return, or    *)
(* 0x7F; it is true of the empty input.                                    *)
(***************************************************************************)
C26_PrintableExactly ==
    sig.op = "IsPrintableUTF8" =>
       /\ sig.ret <=> PrintableText(sig.data)
       /\ Len(sig.data) = 0 => sig.ret

C26_Witness ==
    /\ sig.op = "IsPrintableUTF8"
    /\ sig.data = <<65, 240, 159, 154, 128>>
    /\ sig.ret

(***************************************************************************)
(* C27.  FlagValue returns the flag value whenever it is non-empty (the    *)
(* flag takes precedence over the environment variable), otherwise the     *)
(* environment variable's value when that is non-empty, and otherwise an   *)
(* empty string together with an error; it never returns both a non-empty  *)
(* value and an error.                                                     *)
(***************************************************************************)
C27_FlagBeforeEnvironment ==
    sig.op = "FlagValue" =>
       /\ sig.flagVal # "" => sig.ret = [value |-> sig.flagVal, err |-> FALSE]
       /\ (sig.flagVal = "" /\ sig.envVal # "")
             => sig.ret = [value |-> sig.envVal, err |-> FALSE]
       /\ (sig.flagVal = "" /\ sig.envVal = "") => sig.ret = [value |-> "", err |-> TRUE]
       /\ ~(sig.ret.value # "" /\ sig.ret.err)

C27_Witness ==
    /\ sig.op = "FlagValue"
    /\ sig.flagVal = "from-flag"
    /\ sig.envVal = "from-env"
    /\ sig.ret = [value |-> "from-flag", err |-> FALSE]

(***************************************************************************)
(* Properties of the responses and log entries of the /deploy handler      *)
(* (specification SpecDeploy).                                             *)
(***************************************************************************)
\* The limiter call of the response with the given result, if it was made.
Made(resp, op, ret) == \E i \in 1..Len(resp.calls) : resp.calls[i] = <<op, ret>>

\* What happened to a POST whose body could be read.
Outcome(resp) ==
    IF Made(resp, "IsBanned", TRUE) THEN "banned"
    ELSE IF resp.req.defect = "signature" THEN "bad signature"
    ELSE IF resp.req.defect = "decode" THEN "malformed envelope"
    ELSE IF resp.req.defect = "timestamp" THEN "unparsable timestamp"
    ELSE IF Made(resp, "CheckReplay", FALSE) THEN "stale, future or replayed timestamp"
    ELSE IF resp.req.defect = "version" THEN "version or commit mismatch"
    ELSE IF Made(resp, "RecordSuccess", FALSE) THEN "over the success-rate limit"
    ELSE "accepted"

StatusOf(outcome) ==
    CASE outcome = "accepted" -> 202
      [] outcome = "bad signature" -> 401
      [] outcome = "banned" -> 403
      [] outcome = "over the success-rate limit" -> 429
      [] OTHER -> 400

(***************************************************************************)
(* C23.  Each outcome of the pipeline has one fixed status: accepted 202,  *)
(* failed signature verification 401, banned identity 403, malformed       *)
(* envelope, unparsable timestamp, stale, future or replayed timestamp and *)
(* version or commit mismatch 400, over the success-rate limit 429; a POST *)
(* to /deploy whose body could be read is answered with no other status.   *)
(***************************************************************************)
C23_OneStatusPerOutcome ==
    (served # NoResponse /\ ~Fails(served.req, "body")) =>
       /\ served.status = StatusOf(Outcome(served))
       /\ served.status \in {202, 400, 401, 403, 429}
       /\ served.status = 202 <=> Made(served, "RecordSuccess", TRUE)

C23_Witness ==
    /\ served # NoResponse
    /\ Outcome(served) = "stale, future or replayed timestamp"
    /\ served.req.defect = "valid"
    /\ served.req.ts = 0
    /\ served.status = 400

\* The log entries written on the way to the most recent response.
RejectionLog ==
    HandlerLog(served.step, served.req, served.ip) \o BanLog(served.step, served.ip)

\* The rejections of a request that reached the pipeline.
Rejections == {"ban", "signature", "decode", "timestamp", "replay", "version", "rate"}

Contains(str, word) ==
    \E i \in 1..Len(str) : i + Len(word) - 1 <= Len(str) /\ SubSeq(str, i, i + Len(word) - 1) = word

\* The words by which a log entry names the reason of a rejection.
ReasonWords(step) ==
    CASE step = "ban"       -> "Banned IP"
      [] step = "signature" -> "Invalid signature"
      [] step = "decode"    -> "Invalid JSON"
      [] step = "timestamp" -> "Invalid timestamp"
      [] step = "replay"    -> "Replay"
      [] step = "version"   -> "mismatch"
      [] step = "rate"      -> "rate limit"

IdentityAndReason(entry) ==
    /\ served.ip \in Range(entry.args)
    /\ Contains(entry.format, ReasonWords(served.step))

(***************************************************************************)
(* C24.  Every rejection of a /deploy request (banned, bad signature,      *)
(* malformed envelope, bad timestamp, replay, version mismatch, rate       *)
(* limited) writes a log entry that contains both the resolved client IP   *)
(* and the specific reason of the rejection.                               *)
(***************************************************************************)
C24_RejectionLogsIdentityAndReason ==
    [][(served' # served /\ served'.step \in Rejections)
          => (\E i \in 1..Len(RejectionLog) : IdentityAndReason(RejectionLog[i]))']_vars

\* The same, the version mismatch apart.
C24_AllButVersionMismatch ==
    [][(served' # served /\ served'.step \in Rejections \ {"version"})
          => (\E i \in 1..Len(RejectionLog) : IdentityAndReason(RejectionLog[i]))']_vars

\* What the limiter holds about an IP, with a secret and the signature
\* computed from it.
Hidden(k, ip) ==
    [secret |-> k,
     mac |-> GenerateSignature("a", k, "sha256"),
     failed |-> Get(failedRequests, ip, 0),
     granted |-> Len(Get(successRequests, ip, << >>)),
     banned |-> Get(bannedUntil, ip, 0)]

\* Other values of the same: another secret and signature, another count of
\* failures, another history, another ban.
Hiddens ==
    {[secret |-> k, mac |-> GenerateSignature("a", k, "sha256"),
      failed |-> f, granted |-> f, banned |-> b] :
        k \in {"a", "b"}, f \in {0, 2}, b \in {60}}

DocumentedExit(status) ==
    CASE status = 400 -> 40 [] status = 401 -> 41 [] status = 403 -> 43
      [] status = 413 -> 13 [] status = 429 -> 29 [] status = 500 -> 50
      [] OTHER -> 99

FailureCodes ==
    /\ cli.at \in {"usage", "url", "secret file", "algorithm"} => cli.code = 1
    /\ cli.at \in {"stat", "open", "read", "large", "format"} => cli.code = 2
    /\ cli.at \in {"NewRequest", "Do"} => cli.code = 3
    /\ (cli.at = "response" /\ cli.status # 202) => cli.code = DocumentedExit(cli.status)

Waiting(h) == pc[h] \in Calling /\ gor[h].st = "idle"
Holding(h) == gor[h].st = "locked"

\* Some goroutine in flight can take a step.
CanStep == \E h \in Handlers : ENABLED Acquire(h) \/ ENABLED Run(h)

\* C31: under fair scheduling, with handlers running concurrently, a handler
\* blocked in rl.mu.Lock() eventually holds the mutex; a method that holds it
\* eventually returns, and its return, whatever the method and the value,
\* leaves the mutex free; a handler in flight eventually ends, and ends only
\* by writing the one response of its request; while a handler is in flight
\* some goroutine can take a step.
C31_NoOperationBlocksForever ==
    /\ \A h \in Handlers : Waiting(h) ~> Holding(h)
    /\ \A h \in Handlers : Holding(h) ~> ~Holding(h)
    /\ \A h \in Handlers : (pc[h] # "idle") ~> (pc[h] = "idle")
    /\ [](mu <=> \E h \in Handlers : Holding(h))
    /\ []((\E h \in Handlers : pc[h] # "idle") => CanStep)
    /\ [][\A h \in Handlers :
            /\ (Holding(h) /\ ~Holding(h)') => ~mu'
            /\ (pc[h] # "idle" /\ pc'[h] = "idle") =>
                  /\ served'.req = hreq[h] /\ served'.ip = hip[h]
                  /\ \A k \in Handlers \ {h} : pc'[k] = pc[k]]_vars

\* A request has been answered, and now one handler holds the mutex in
\* RecordFailure while the other is blocked in the rl.mu.Lock() of
\* RecordSuccess.
C31_Witness ==
    /\ served # NoResponse
    /\ \E h \in Handlers, k \in Handlers :
          /\ Holding(h) /\ gor[h].op = "RecordFailure"
          /\ Waiting(k) /\ MethodAt(k).op = "RecordSuccess"

(***************************************************************************)
(* Properties of the /deploy pipeline under interleaving (SpecDeploy).     *)
(***************************************************************************)
\* C32: whatever the interleaving of the handlers, no request is accepted
\* (RecordSuccess true, deploy started, 202 written) for an identity whose
\* ban is in force at that moment.
C32_NoAcceptWhileBanned ==
    [][\A h \in Handlers :
          (Answers(h) /\ served'.status = StatusAccepted)
             => ~BanInForce(hip[h])]_vars
\* C33: once an identity's ban is set its expiry instant stays as it is while
\* the ban is in force, whatever RecordFailure calls the handlers make for
\* the identity, and no failure counter goes above failLimit.
C33_BanExpiryFixed ==
    [][\A ip \in IPs :
          /\ Get(failedRequests', ip, 0) <= failLimit
          /\ BanInForce(ip) =>
                /\ ip \in DOMAIN bannedUntil'
                /\ bannedUntil'[ip] = bannedUntil[ip]]_vars
\* The second half alone: the expiry of a ban in force is not moved.
C33_ExpiryKept ==
    [][\A ip \in IPs :
          BanInForce(ip) =>
             /\ ip \in DOMAIN bannedUntil'
             /\ bannedUntil'[ip] = bannedUntil[ip]]_vars
\* The timestamp lies in the acceptance window of CheckReplay at the clock.
InWindow(ts) == now - ReplayPast <= ts /\ ts <= now + ReplayFuture

\* The request handler h is serving is free of defects.
Sound(h) == hreq[h].defect = "valid"

\* The identity of the request h is serving has sent nothing before it: the
\* limiter holds no record of the identity and no other handler is serving a
\* request of it.
FirstFrom(h) ==
    /\ hip[h] \notin DOMAIN successRequests \cup DOMAIN failedRequests
                       \cup DOMAIN bannedUntil
    /\ \A k \in Handlers \ {h} : hip[k] # hip[h]

\* Identity ip has a failure counted, or its ban set or moved, in this step.
Penalized(ip) ==
    \/ Get(failedRequests', ip, 0) > Get(failedRequests, ip, 0)
    \/ Get(bannedUntil', ip, 0 - 1) # Get(bannedUntil, ip, 0 - 1)

\* CheckReplay rejects in this step the timestamp of the request h is serving.
ReplayRefused(h) == pc[h] = "read" /\ pc'[h] = "replayed"

Unverified(r) == Fails(r, "signature")

\* Handler h takes a step for the request it is serving.
StepOf(h) == pc[h] # "idle" /\ pc'[h] # pc[h]

\* The identity whose request arrives unverified in this step, if one does.
UnverifiedArrival(ip) ==
    /\ started' # started
    /\ \/ pc' = pc /\ served'.ip = ip /\ Unverified(served'.req)
       \/ \E h \in Handlers : pc'[h] # pc[h] /\ hip'[h] = ip /\ Unverified(hreq'[h])

\* Nothing but the failure counter and the ban record of ip changes.
OnlyOwnPenalty(ip) ==
    /\ UNCHANGED <<seenTimestamps, successRequests, deploys>>
    /\ \A other \in IPs \ {ip} :
          /\ Get(failedRequests', other, 0) = Get(failedRequests, other, 0)
          /\ Get(bannedUntil', other, 0 - 1) = Get(bannedUntil, other, 0 - 1)

\* C35: the seen-timestamp set and the success histories change only in a
\* step of a handler whose request has passed signature verification; a
\* request whose signature does not verify is never at or past the replay
\* check and its answer shows no CheckReplay and no RecordSuccess call; every
\* step taken for it changes nothing but the failure counter and the ban
\* record of its own identity.
C35_UnverifiedChangesOnlyOwnPenalty ==
    /\ [](/\ \A h \in Handlers :
                Unverified(hreq[h]) => pc[h] \in {"idle", "read"}
          /\ Unverified(served.req) =>
                \A ret \in BOOLEAN :
                   /\ ~Made(served, "CheckReplay", ret)
                   /\ ~Made(served, "RecordSuccess", ret))
    /\ [][/\ (seenTimestamps' # seenTimestamps \/ successRequests' # successRequests)
                => \E h \in Handlers : StepOf(h) /\ ~Unverified(hreq[h])
          /\ \A ip \in IPs : UnverifiedArrival(ip) => OnlyOwnPenalty(ip)
          /\ \A h \in Handlers :
                (StepOf(h) /\ Unverified(hreq[h])) => OnlyOwnPenalty(hip[h])]_vars

\* A request with a bad signature has been answered 401 and has brought the
\* ban on its identity, with a timestamp in the seen-set and a success in
\* another identity's history.
C35_Witness ==
    /\ served.req.defect = "signature"
    /\ served.status = StatusUnauthorized
    /\ served.ip \in DOMAIN bannedUntil
    /\ seenTimestamps # EmptyMap
    /\ \E ip \in IPs \ {served.ip} : Len(Get(successRequests, ip, << >>)) > 0
\* The request r arrives from ip in this step.
Arrives(r, ip) ==
    /\ started' # started
    /\ \/ pc' = pc /\ served'.req = r /\ served'.ip = ip
       \/ \E h \in Handlers : pc'[h] # pc[h] /\ hreq'[h] = r /\ hip'[h] = ip

\* The last response turned a signed request away after its replay check:
\* 400 for the version, or 429.
TurnedAwayLate == served.step \in {"version", "rate"}

\* A request answered for its version or for the rate has its timestamp in
\* the seen-set when it is answered.
C36_Consumed ==
    \A h \in Handlers :
       (Answers(h) /\ served'.step \in {"version", "rate"})
          => /\ Made(served', "CheckReplay", TRUE)
             /\ hreq[h].ts \in DOMAIN seenTimestamps'

\* A request that comes to the replay check with a timestamp in the seen-set
\* is refused, and answered 400 with one failure counted for its sender.
C36_Refused ==
    \A h \in Handlers :
       /\ (StepOf(h) /\ pc[h] = "read" /\ LocalCheck(hreq[h])[1] = "none"
             /\ hreq[h].ts \in DOMAIN seenTimestamps) => ReplayRefused(h)
       /\ (Answers(h) /\ pc[h] = "replayed")
             => /\ served'.status = StatusBadRequest /\ served'.step = "replay"
                /\ Get(failedRequests', hip[h], 0) = Get(failedRequests, hip[h], 0) + 1

\* C36: the timestamp of a signed request is recorded by the replay check
\* before the version and the rate are looked at, so the same bytes sent
\* again by the same sender, within the retention window, go on to the replay
\* check, are refused there and count as a failure of the sender.
C36_ResubmissionIsReplay ==
    [][/\ C36_Consumed
       /\ C36_Refused
       /\ (TurnedAwayLate /\ Arrives(served.req, served.ip))
             => \E h \in Handlers : pc'[h] = "read" /\ hreq'[h] = served.req]_vars

\* C36 amended: as above, except that the same bytes sent again while the
\* sender's ban is in force are answered 403 on arrival, with nothing
\* counted; sent again while no ban is in force they go on to the replay
\* check.
C36_ResubmissionIsReplayUnlessBanned ==
    [][/\ C36_Consumed
       /\ C36_Refused
       /\ (TurnedAwayLate /\ Arrives(served.req, served.ip))
             => IF BanInForce(served.ip)
                  THEN /\ AnsweredOnArrival
                       /\ served'.status = StatusForbidden
                       /\ UNCHANGED maps
                  ELSE \E h \in Handlers :
                          pc'[h] = "read" /\ hreq'[h] = served.req]_vars

\* Two requests have arrived, both from one sender: the first was answered
\* 400 for its version, the second, the same bytes, 400 at the replay check,
\* and the sender has two failures counted.
C36_Witness ==
    /\ started = 2
    /\ served.step = "replay" /\ served.status = StatusBadRequest
    /\ served.req.defect = "version"
    /\ Get(failedRequests, served.ip, 0) = 2

(***************************************************************************)
(* Properties of the replay guard over a long life (SpecRetention).        *)
(***************************************************************************)
\* The entries of the seen-set that this step prunes.
Pruned == DOMAIN seenTimestamps \ DOMAIN seenTimestamps'

\* C37: with a retention window of 6 minutes or more, the listener's 10
\* among them, CheckReplay returns true at most once for a timestamp value
\* in the whole life of the process; an entry is pruned only when its
\* timestamp is older than the acceptance window reaches back, and never in
\* a call that returns false.
C37_NeverAcceptedTwice ==
    /\ [](replayWindow >= ReplayPast + ReplayFuture =>
             \A ts \in DOMAIN accepts : Len(accepts[ts]) <= 1)
    /\ [][replayWindow >= ReplayPast + ReplayFuture =>
             /\ \A ts \in Pruned : ts < now - ReplayPast
             /\ Pruned # {} => (last'.op = "CheckReplay" /\ last'.ret)]_vars

\* With the listener's retention window an accepted timestamp has been
\* pruned from the seen-set, and presented again it has been rejected.
C37_Witness ==
    /\ replayWindow = 10
    /\ last.op = "CheckReplay" /\ ~last.ret
    /\ last.ts \in DOMAIN accepts
    /\ last.ts \notin DOMAIN seenTimestamps

(***************************************************************************)
(* Properties of the pipeline over the life of a ban (SpecExpiry).         *)
(***************************************************************************)
\* The ban of ip is in force after this step.
BanInForceAfter(ip) == ip \in DOMAIN bannedUntil' /\ now' < bannedUntil'[ip]

\* C38: once the ban of an identity has expired the identity has its whole
\* failure budget again: the first request that arrives from it is not
\* answered 403 and finds the ban record and the failure counter cleared,
\* and, failLimit being above 1, no single step puts the identity under a
\* ban again.
C38_FreshBudgetAfterExpiry ==
    [][\A ip \in IPs :
          ExpiredBan(ip) =>
             /\ ArrivalFrom(ip) =>
                   /\ served'.status # StatusForbidden
                   /\ ip \notin DOMAIN bannedUntil' \cup DOMAIN failedRequests'
             /\ failLimit > 1 => ~BanInForceAfter(ip)]_vars

\* The same with no request of the identity in flight when its ban expires.
C38_FreshBudgetUnlessInFlight ==
    [][\A ip \in IPs :
          (ExpiredBan(ip) /\ \A h \in Handlers : hip[h] # ip) =>
             /\ ArrivalFrom(ip) =>
                   /\ served'.status # StatusForbidden
                   /\ ip \notin DOMAIN bannedUntil' \cup DOMAIN failedRequests'
             /\ failLimit > 1 => ~BanInForceAfter(ip)]_vars

(***************************************************************************)
(* The requests that fail before their signature is looked at (SpecDeploy). *)
(***************************************************************************)
\* The handler's answer to a body that io.ReadAll could not read.
BodyRefused(h) ==
    /\ served' = [req |-> hreq[h], ip |-> hip[h],
                  calls |-> << <<"IsBanned", FALSE>>, <<"RecordFailure", TRUE>> >>,
                  status |-> StatusBadRequest, step |-> "body"]
    /\ failedRequests' = Put(failedRequests, hip[h], Get(failedRequests, hip[h], 0) + 1)
    /\ failedRequests'[hip[h]] >= failLimit => BanInForceAfter(hip[h])
    /\ failedRequests'[hip[h]] < failLimit => bannedUntil' = bannedUntil
    /\ UNCHANGED <<seenTimestamps, successRequests, deploys>>

\* A request that is not a POST arrives in this step.
NonPostArrival == started' # started /\ pc' = pc /\ Fails(served'.req, "method")

\* C39: a POST that has passed the ban check and whose body cannot be read
\* is answered 400 at the body step, with no call of the limiter but one
\* RecordFailure, which adds one to the failure counter of its identity and
\* puts the identity under a ban when the counter is at failLimit; a request
\* that is not a POST is answered 405 with no call of the limiter and no
\* change of the limiter's maps, and never gets further.
C39_UnreadableBodyCountsNonPostDoesNot ==
    [][/\ \A h \in Handlers :
             (StepOf(h) /\ pc[h] = "read" /\ Fails(hreq[h], "body")) => BodyRefused(h)
       /\ NonPostArrival =>
             /\ served'.status = StatusMethodNotAllowed
             /\ served'.step = "method"
             /\ served'.calls = << >>
             /\ UNCHANGED maps
       /\ \A h \in Handlers : ~Fails(hreq'[h], "method")]_vars

\* The second unreadable body of an identity has put it under a ban.
C39_Witness ==
    /\ served.step = "body"
    /\ served.status = StatusBadRequest
    /\ Get(failedRequests, served.ip, 0) = failLimit
    /\ served.ip \in DOMAIN bannedUntil
    /\ now < bannedUntil[served.ip]
    /\ served.calls = << <<"IsBanned", FALSE>>, <<"RecordFailure", TRUE>> >>

(***************************************************************************)
(* Properties of the size of the envelope (SpecEnvelope).                  *)
(***************************************************************************)
\* C40: the envelope of every payload that dchook-notify has accepted is at
\* most MaxRequestBodySize bytes long, and the listener's read of the body
\* does not fail.
C40_EnvelopeFits ==
    /\ cli.st \in {"envelope", "posted"} => cli.body <= MaxRequestBodySize
    /\ cli.st = "posted" => ~cli.err

\* Every rune of p is written by json.Marshal as its UTF-8.
Unescaped(p) == \A i \in 1..Len(p) : EscapedLen(p[i].r) = Len(EncodeRune(p[i].r))

\* The envelope of an accepted payload none of whose runes is escaped fits.
C40_UnescapedFits ==
    (cli.st \in {"envelope", "posted"}
       /\ Unescaped(IF IsJSON(cli.payloadBody) THEN Unquoted(cli.payloadBody)
                    ELSE cli.payloadBody))
      => cli.body <= MaxRequestBodySize

====
